---- MODULE Spec2Model ----
(***************************************************************************)
(* Model of scripts/validate-docs.py: the documentation validation and     *)
(* registry generation pipeline (front-matter validation, canonical        *)
(* uniqueness, near-duplicate detection, registry generation, main); of    *)
(* main of scripts/validate_agents.py and of validate_skill of             *)
(* scripts/validate_skills.py, each in a section of its own at the end.    *)
(*                                                                         *)
(* Representation.  A Python str is a sequence of one-character strings.   *)
(* A front-matter value is a tagged record (Str, Bool, IntV, ListV, DateV, *)
(* NoneV) so that isinstance checks and truthiness are decided as Python   *)
(* decides them.  A front-matter dict is a function whose DOMAIN is its    *)
(* key set.  A 64-bit simhash is the set of its one-bits (positions        *)
(* 0..63), so XOR is the symmetric difference and the population count is  *)
(* the cardinality.                                                        *)
(***************************************************************************)
EXTENDS Integers, Sequences, FiniteSets, TLC

(***************************************************************************)
(* Characters and strings                                                  *)
(***************************************************************************)
UpperSeq ==
    <<"A","B","C","D","E","F","G","H","I","J","K","L","M",
      "N","O","P","Q","R","S","T","U","V","W","X","Y","Z">>

LowerSeq ==
    <<"a","b","c","d","e","f","g","h","i","j","k","l","m",
      "n","o","p","q","r","s","t","u","v","w","x","y","z">>

DigitSeq == <<"0","1","2","3","4","5","6","7","8","9">>

SeqRange(s) == {s[i] : i \in 1..Len(s)}

UpperChars == SeqRange(UpperSeq)

LowerChars == SeqRange(LowerSeq)

DigitChars == SeqRange(DigitSeq)

\* the characters the regex class \s matches
SpaceChars == {" ", "\t", "\n"}

Max(a, b) == IF a >= b THEN a ELSE b

\* str.lower() on one character
LowerChar(c) ==
    IF c \in UpperChars
    THEN LowerSeq[CHOOSE i \in 1..Len(UpperSeq) : UpperSeq[i] = c]
    ELSE c

\* str.lower()
LowerStr(s) == [i \in 1..Len(s) |-> LowerChar(s[i])]

RECURSIVE LStrip(_)
LStrip(s) ==
    IF s # <<>> /\ Head(s) \in SpaceChars THEN LStrip(Tail(s)) ELSE s

RECURSIVE RStrip(_)
RStrip(s) ==
    IF s # <<>> /\ s[Len(s)] \in SpaceChars
    THEN RStrip(SubSeq(s, 1, Len(s) - 1))
    ELSE s

\* str.strip()
Strip(s) == RStrip(LStrip(s))

\* re.sub(r"\s+", " ", s)
RECURSIVE CollapseSpaces(_)
CollapseSpaces(s) ==
    IF s = <<>> THEN <<>>
    ELSE IF Head(s) \in SpaceChars
         THEN <<" ">> \o CollapseSpaces(LStrip(Tail(s)))
         ELSE <<Head(s)>> \o CollapseSpaces(Tail(s))

\* re.sub(r"[^a-z0-9\s]", "", s)
DeleteSpecialChars(s) ==
    SelectSeq(s, LAMBDA c : c \in LowerChars \cup DigitChars \cup SpaceChars)

\* the digits of s[from..to] read as a decimal number
RECURSIVE DecimalValue(_, _, _)
DecimalValue(s, from, to) ==
    IF to < from THEN 0
    ELSE 10 * DecimalValue(s, from, to - 1)
         + ((CHOOSE i \in 1..10 : DigitSeq[i] = s[to]) - 1)

AllDigits(s, from, to) == \A i \in from..to : s[i] \in DigitChars

\* a pattern ending in $ also matches just before one final newline
DropFinalNewline(s) ==
    IF s # <<>> /\ s[Len(s)] = "\n" THEN SubSeq(s, 1, Len(s) - 1) ELSE s

(***************************************************************************)
(* Front-matter values                                                     *)
(***************************************************************************)
Str(s) == [t |-> "str", s |-> s, b |-> FALSE, n |-> 0, l |-> <<>>]

Bool(b) == [t |-> "bool", s |-> <<>>, b |-> b, n |-> 0, l |-> <<>>]

IntV(n) == [t |-> "int", s |-> <<>>, b |-> FALSE, n |-> n, l |-> <<>>]

ListV(l) == [t |-> "list", s |-> <<>>, b |-> FALSE, n |-> 0, l |-> l]

\* a datetime.date, which the YAML loader yields for an unquoted ISO date;
\* s holds its str() rendering
DateV(s) == [t |-> "date", s |-> s, b |-> FALSE, n |-> 0, l |-> <<>>]

NoneV == [t |-> "none", s |-> <<>>, b |-> FALSE, n |-> 0, l |-> <<>>]

\* Python truthiness of a value
Truthy(v) ==
    CASE v.t = "str" -> v.s # <<>>
      [] v.t = "bool" -> v.b
      [] v.t = "int" -> v.n # 0
      [] v.t = "list" -> v.l # <<>>
      [] v.t = "date" -> TRUE
      [] OTHER -> FALSE

\* str(value) for the value kinds that reach a str() call
PyStr(v) ==
    CASE v.t = "str" -> v.s
      [] v.t = "date" -> v.s
      [] v.t = "bool" -> IF v.b THEN <<"T","r","u","e">>
                                ELSE <<"F","a","l","s","e">>
      [] OTHER -> <<"?">>

\* type(value), as the messages print it
PyType(v) == v.t

\* front_matter.get(key)
Get(front_matter, key) ==
    IF key \in DOMAIN front_matter THEN front_matter[key] ELSE NoneV

\* front_matter.get("title", "")
GetTitle(front_matter) ==
    IF "title" \in DOMAIN front_matter THEN front_matter["title"] ELSE Str(<<>>)

\* whether json.dump can serialise the value
JsonSerializable(v) == v.t # "date"

(***************************************************************************)
(* Constants of the module                                                 *)
(***************************************************************************)
VALID_DOC_TYPES ==
    { <<"s","p","e","c">>, <<"r","f","c">>, <<"a","d","r">>,
      <<"p","l","a","n">>, <<"f","i","n","d","i","n","g">>,
      <<"g","u","i","d","e">>, <<"g","l","o","s","s","a","r","y">>,
      <<"r","e","f","e","r","e","n","c","e">> }

VALID_STATUSES ==
    { <<"d","r","a","f","t">>, <<"a","c","t","i","v","e">>,
      <<"s","u","p","e","r","s","e","d","e","d">>,
      <<"r","e","j","e","c","t","e","d">>,
      <<"a","r","c","h","i","v","e","d">> }

REQUIRED_FIELDS ==
    {"doc_id", "title", "doc_type", "status", "canonical", "created",
     "tags", "summary"}

INBOX_REQUIRED_FIELDS == {"title", "doc_type", "status", "created"}

\* DOC_ID_PATTERN.match: ^[A-Z]+-\d{4}-\d{5}$
DOC_ID_PATTERN(str) ==
    LET s == DropFinalNewline(str)
        k == Len(s) - 11
    IN  /\ k >= 1
        /\ \A i \in 1..k : s[i] \in UpperChars
        /\ s[k + 1] = "-"
        /\ AllDigits(s, k + 2, k + 5)
        /\ s[k + 6] = "-"
        /\ AllDigits(s, k + 7, k + 11)

\* DATE_PATTERN.match: ^\d{4}-\d{2}-\d{2}$
DATE_PATTERN(str) ==
    LET s == DropFinalNewline(str)
    IN  /\ Len(s) = 10
        /\ AllDigits(s, 1, 4)
        /\ s[5] = "-"
        /\ AllDigits(s, 6, 7)
        /\ s[8] = "-"
        /\ AllDigits(s, 9, 10)

IsLeapYear(y) == (y % 4 = 0 /\ y % 100 # 0) \/ y % 400 = 0

DaysInMonth(y, m) ==
    CASE m \in {4, 6, 9, 11} -> 30
      [] m = 2 -> IF IsLeapYear(y) THEN 29 ELSE 28
      [] OTHER -> 31

\* datetime.strptime(s, "%Y-%m-%d") succeeds, for s matching DATE_PATTERN
StrptimeOk(s) ==
    /\ Len(s) = 10
    /\ LET y == DecimalValue(s, 1, 4)
           m == DecimalValue(s, 6, 7)
           d == DecimalValue(s, 9, 10)
       IN  /\ y >= 1
           /\ m \in 1..12
           /\ d \in 1..DaysInMonth(y, m)

(***************************************************************************)
(* Findings (class ValidationError)                                        *)
(***************************************************************************)
\* the message of a finding, kept structured instead of formatted
Msg(kind) ==
    [kind |-> kind, field |-> "", value |-> <<>>, names |-> <<>>,
     concept |-> <<>>, paths |-> <<>>, corpus |-> <<>>,
     title_sim |-> 0, content_sim |-> 0]

ValidationError(path, message, is_warning) ==
    [path |-> path, message |-> message, is_warning |-> is_warning]

\* sorted(...) of a set of field names
FieldOrder ==
    <<"canonical", "created", "doc_id", "doc_type", "status", "summary",
      "tags", "title", "updated">>

SortedFields(S) == SelectSeq(FieldOrder, LAMBDA f : f \in S)

(***************************************************************************)
(* Paths.  A path is the character sequence of str(path).                  *)
(***************************************************************************)
\* the characters that occur in the model's paths, in code-point order
CharOrder ==
    <<"(", ")", ".", "/", "_">> \o LowerSeq

CharRank(c) == CHOOSE i \in 1..Len(CharOrder) : CharOrder[i] = c

\* a <= b in the order sorting by path would use
RECURSIVE PathLeq(_, _)
PathLeq(a, b) ==
    IF a = <<>> THEN TRUE
    ELSE IF b = <<>> THEN FALSE
    ELSE IF Head(a) = Head(b) THEN PathLeq(Tail(a), Tail(b))
    ELSE CharRank(Head(a)) < CharRank(Head(b))

\* sub in s
Contains(s, sub) ==
    \E i \in 0..(Len(s) - Len(sub)) : SubSeq(s, i + 1, i + Len(sub)) = sub

InboxMarker == <<"/", "_", "i", "n", "b", "o", "x", "/">>

\* "/_inbox/" in str(path)
IsInbox(path) == Contains(path, InboxMarker)

\* Path("(system)")
SystemPath == <<"(", "s", "y", "s", "t", "e", "m", ")">>

(***************************************************************************)
(* validate_front_matter_fields                                            *)
(***************************************************************************)
\* a validator that asks every document for the fields of a full one
MissingFieldErrorsOfFull(doc_path, front_matter, is_inbox) ==
    LET missing_fields == REQUIRED_FIELDS \ DOMAIN front_matter
    IN  IF missing_fields # {}
        THEN << ValidationError(doc_path,
                    [Msg("missing_fields") EXCEPT
                        !.names = SortedFields(missing_fields)], FALSE) >>
        ELSE <<>>

MissingFieldErrors(doc_path, front_matter, is_inbox) ==
    LET required == IF is_inbox THEN INBOX_REQUIRED_FIELDS ELSE REQUIRED_FIELDS
        missing_fields == required \ DOMAIN front_matter
    IN  IF missing_fields # {}
        THEN << ValidationError(doc_path,
                    [Msg("missing_fields") EXCEPT
                        !.names = SortedFields(missing_fields)], FALSE) >>
        ELSE <<>>

\* value in S, for S a set of str
InStrSet(v, S) == v.t = "str" /\ v.s \in S

DocTypeErrors(doc_path, front_matter) ==
    LET doc_type == Get(front_matter, "doc_type")
    IN  IF Truthy(doc_type) /\ ~InStrSet(doc_type, VALID_DOC_TYPES)
        THEN << ValidationError(doc_path,
                    [Msg("invalid_doc_type") EXCEPT
                        !.field = "doc_type", !.value = PyStr(doc_type)],
                    FALSE) >>
        ELSE <<>>

StatusErrors(doc_path, front_matter) ==
    LET status == Get(front_matter, "status")
    IN  IF Truthy(status) /\ ~InStrSet(status, VALID_STATUSES)
        THEN << ValidationError(doc_path,
                    [Msg("invalid_status") EXCEPT
                        !.field = "status", !.value = PyStr(status)],
                    FALSE) >>
        ELSE <<>>

DocIdErrors(doc_path, front_matter, is_inbox) ==
    LET doc_id == Get(front_matter, "doc_id")
    IN  IF ~is_inbox /\ Truthy(doc_id) /\ ~DOC_ID_PATTERN(PyStr(doc_id))
        THEN << ValidationError(doc_path,
                    [Msg("invalid_doc_id_format") EXCEPT
                        !.field = "doc_id", !.value = PyStr(doc_id)],
                    FALSE) >>
        ELSE <<>>

DateErrors(doc_path, front_matter, date_field) ==
    LET date_value == Get(front_matter, date_field)
        date_str == PyStr(date_value)
    IN  IF ~Truthy(date_value) THEN <<>>
        ELSE IF ~DATE_PATTERN(date_str)
        THEN << ValidationError(doc_path,
                    [Msg("invalid_date_format") EXCEPT
                        !.field = date_field, !.value = date_str], FALSE) >>
        ELSE IF ~StrptimeOk(date_str)
        THEN << ValidationError(doc_path,
                    [Msg("invalid_date") EXCEPT
                        !.field = date_field, !.value = date_str], FALSE) >>
        ELSE <<>>

CanonicalTypeErrors(doc_path, front_matter) ==
    LET canonical == Get(front_matter, "canonical")
    IN  IF canonical.t # "none" /\ canonical.t # "bool"
        THEN << ValidationError(doc_path,
                    [Msg("canonical_not_boolean") EXCEPT
                        !.field = "canonical",
                        !.names = <<PyType(canonical)>>], FALSE) >>
        ELSE <<>>

\* a validator that tests the truth value of tags instead of "is not None"
TagsTypeErrorsWhenTruthy(doc_path, front_matter) ==
    LET tags == Get(front_matter, "tags")
    IN  IF Truthy(tags) /\ tags.t # "list"
        THEN << ValidationError(doc_path,
                    [Msg("tags_not_list") EXCEPT
                        !.field = "tags", !.names = <<PyType(tags)>>],
                    FALSE) >>
        ELSE <<>>

TagsTypeErrors(doc_path, front_matter) ==
    LET tags == Get(front_matter, "tags")
    IN  IF tags.t # "none" /\ tags.t # "list"
        THEN << ValidationError(doc_path,
                    [Msg("tags_not_list") EXCEPT
                        !.field = "tags", !.names = <<PyType(tags)>>],
                    FALSE) >>
        ELSE <<>>

\* hash(value) succeeds: a list cannot be looked up in a set
Hashable(v) == v.t # "list"

\* "doc_type not in VALID_DOC_TYPES" or "status not in VALID_STATUSES"
\* raises TypeError: the value is truthy and cannot be hashed
ValidateRaises(front_matter) ==
    \/ /\ Truthy(Get(front_matter, "doc_type"))
       /\ ~Hashable(Get(front_matter, "doc_type"))
    \/ /\ Truthy(Get(front_matter, "status"))
       /\ ~Hashable(Get(front_matter, "status"))

\* the findings validate_front_matter_fields returns, when it returns
validate_front_matter_fields(doc_path, front_matter, is_inbox) ==
    MissingFieldErrors(doc_path, front_matter, is_inbox)
    \o DocTypeErrors(doc_path, front_matter)
    \o StatusErrors(doc_path, front_matter)
    \o DocIdErrors(doc_path, front_matter, is_inbox)
    \o DateErrors(doc_path, front_matter, "created")
    \o DateErrors(doc_path, front_matter, "updated")
    \o CanonicalTypeErrors(doc_path, front_matter)
    \o TagsTypeErrors(doc_path, front_matter)

(***************************************************************************)
(* check_canonical_uniqueness                                              *)
(***************************************************************************)
\* the normalisation of a title into its concept key
NormalizeTitle(title) ==
    Strip(CollapseSpaces(DeleteSpecialChars(LowerStr(title))))

\* the test that lets a document into the grouping:
\* not skipped by "if not doc.front_matter.get('canonical'): continue"
TakesPartInUniqueness(doc) == Truthy(Get(doc.front_matter, "canonical"))

\* a grouping that passes over the documents whose key is empty
AddCanonicalUnlessEmpty(canonical_docs, normalized, path) ==
    LET at == {i \in 1..Len(canonical_docs) :
                    canonical_docs[i].concept = normalized}
    IN  IF normalized = <<>> THEN canonical_docs
        ELSE IF at = {}
        THEN Append(canonical_docs,
                    [concept |-> normalized, paths |-> <<path>>])
        ELSE LET i == CHOOSE j \in at : TRUE
             IN  [canonical_docs EXCEPT ![i].paths = Append(@, path)]

\* canonical_docs[normalized].append(doc.path); a dict keeps its keys in the
\* order of their first insertion
AddCanonical(canonical_docs, normalized, path) ==
    LET at == {i \in 1..Len(canonical_docs) :
                    canonical_docs[i].concept = normalized}
    IN  IF at = {}
        THEN Append(canonical_docs,
                    [concept |-> normalized, paths |-> <<path>>])
        ELSE LET i == CHOOSE j \in at : TRUE
             IN  [canonical_docs EXCEPT ![i].paths = Append(@, path)]

\* the loop over documents that fills canonical_docs
RECURSIVE GroupCanonical(_, _)
GroupCanonical(documents, canonical_docs) ==
    IF documents = <<>> THEN canonical_docs
    ELSE LET doc == Head(documents)
         IN  IF ~TakesPartInUniqueness(doc)
             THEN GroupCanonical(Tail(documents), canonical_docs)
             ELSE GroupCanonical(Tail(documents),
                    AddCanonical(canonical_docs,
                        NormalizeTitle(GetTitle(doc.front_matter).s),
                        doc.path))

\* the loop that reports the concepts with more than one path
RECURSIVE ReportDuplicates(_)
ReportDuplicates(canonical_docs) ==
    IF canonical_docs = <<>> THEN <<>>
    ELSE LET g == Head(canonical_docs)
         IN  (IF Len(g.paths) > 1
              THEN << ValidationError(g.paths[1],
                        [Msg("multiple_canonical") EXCEPT
                            !.concept = g.concept, !.paths = g.paths],
                        FALSE) >>
              ELSE <<>>)
             \o ReportDuplicates(Tail(canonical_docs))

check_canonical_uniqueness(documents) ==
    ReportDuplicates(GroupCanonical(documents, <<>>))

(***************************************************************************)
(* detect_near_duplicates                                                  *)
(***************************************************************************)
HAMMING_THRESHOLD_DEFAULT == 8

TITLE_SIMILARITY_DEFAULT == 80

\* the value hamming_dist keeps when no distance is computed
HAMMING_NOT_COMPUTED == 999

SIMHASH_BITS == 64

\* a simhash field: None, or the set of one-bits of the 64-bit value
NoSimhash == [present |-> FALSE, bits |-> {}]

SimhashValue(bits) == [present |-> TRUE, bits |-> bits]

\* length of a longest common subsequence
RECURSIVE LcsLen(_, _)
LcsLen(a, b) ==
    IF a = <<>> \/ b = <<>> THEN 0
    ELSE IF Head(a) = Head(b) THEN 1 + LcsLen(Tail(a), Tail(b))
    ELSE Max(LcsLen(Tail(a), b), LcsLen(a, Tail(b)))

\* rapidfuzz's fuzz.ratio(a, b): the normalised indel similarity
\* 100 * 2 * lcs / (len(a) + len(b)), kept as the exact fraction num/den
FuzzRatio(a, b) ==
    IF Len(a) + Len(b) = 0
    THEN [num |-> 100, den |-> 1]
    ELSE [num |-> 200 * LcsLen(a, b), den |-> Len(a) + Len(b)]

\* title_sim for one inbox/corpus pair
TitleSim(inbox_doc, corpus_doc, env) ==
    LET inbox_title == GetTitle(inbox_doc.front_matter)
        corpus_title == GetTitle(corpus_doc.front_matter)
    IN  IF env.rapidfuzz /\ Truthy(inbox_title) /\ Truthy(corpus_title)
        THEN FuzzRatio(LowerStr(inbox_title.s), LowerStr(corpus_title.s))
        ELSE [num |-> 0, den |-> 1]

\* whether the simhash branch runs for one pair
HammingComputed(inbox_doc, corpus_doc, env) ==
    env.simhash /\ inbox_doc.simhash.present /\ corpus_doc.simhash.present

\* bin(a ^ b).count("1")
PopCountXor(a, b) == Cardinality((a \ b) \cup (b \ a))

\* a detector whose distance starts at 0 instead of 999
HammingDistFromZero(inbox_doc, corpus_doc, env) ==
    IF HammingComputed(inbox_doc, corpus_doc, env)
    THEN PopCountXor(inbox_doc.simhash.bits, corpus_doc.simhash.bits)
    ELSE 0

\* hamming_dist for one pair
HammingDist(inbox_doc, corpus_doc, env) ==
    IF HammingComputed(inbox_doc, corpus_doc, env)
    THEN PopCountXor(inbox_doc.simhash.bits, corpus_doc.simhash.bits)
    ELSE HAMMING_NOT_COMPUTED

\* a detector that rounds the share of differing bits up, not down
ContentSimRoundedUp(inbox_doc, corpus_doc, env) ==
    IF HammingComputed(inbox_doc, corpus_doc, env)
    THEN Max(0, 100 - ((HammingDist(inbox_doc, corpus_doc, env) * 100
                            + SIMHASH_BITS - 1) \div SIMHASH_BITS))
    ELSE 0

\* content_sim for one pair
ContentSim(inbox_doc, corpus_doc, env) ==
    IF HammingComputed(inbox_doc, corpus_doc, env)
    THEN Max(0, 100 - ((HammingDist(inbox_doc, corpus_doc, env) * 100)
                            \div SIMHASH_BITS))
    ELSE 0

\* the ":.0f" rendering of a fraction: round half to even
RoundFraction(f) ==
    LET q == f.num \div f.den
        r == f.num % f.den
    IN  IF 2 * r < f.den THEN q
        ELSE IF 2 * r > f.den THEN q + 1
        ELSE IF q % 2 = 0 THEN q ELSE q + 1

\* a detector that reports a pair only when both similarities are high
QualifiesOnBoth(inbox_doc, corpus_doc, hamming_threshold, title_similarity, env) ==
    LET title_sim == TitleSim(inbox_doc, corpus_doc, env)
    IN  /\ title_sim.num >= title_similarity * title_sim.den
        /\ HammingDist(inbox_doc, corpus_doc, env) <= hamming_threshold

\* title_sim >= title_similarity or hamming_dist <= hamming_threshold
Qualifies(inbox_doc, corpus_doc, hamming_threshold, title_similarity, env) ==
    LET title_sim == TitleSim(inbox_doc, corpus_doc, env)
    IN  \/ title_sim.num >= title_similarity * title_sim.den
        \/ HammingDist(inbox_doc, corpus_doc, env) <= hamming_threshold

\* a detector that builds its finding without is_warning=True
NearDuplicateError(inbox_doc, corpus_doc, env) ==
    ValidationError(inbox_doc.path,
        [Msg("near_duplicate") EXCEPT
            !.corpus = corpus_doc.path,
            !.title_sim =
                RoundFraction(TitleSim(inbox_doc, corpus_doc, env)),
            !.content_sim =
                ContentSim(inbox_doc, corpus_doc, env)],
        FALSE)

NearDuplicateWarning(inbox_doc, corpus_doc, env) ==
    ValidationError(inbox_doc.path,
        [Msg("near_duplicate") EXCEPT
            !.corpus = corpus_doc.path,
            !.title_sim =
                RoundFraction(TitleSim(inbox_doc, corpus_doc, env)),
            !.content_sim =
                ContentSim(inbox_doc, corpus_doc, env)],
        TRUE)

\* an inner loop without the break: every qualifying corpus document is
\* reported and every corpus document is examined
RECURSIVE ScanCorpusAll(_, _, _, _, _)
ScanCorpusAll(inbox_doc, corpus_docs, hamming_threshold, title_similarity, env) ==
    IF corpus_docs = <<>>
    THEN [warnings |-> <<>>, examined |-> <<>>]
    ELSE LET corpus_doc == Head(corpus_docs)
             rest == ScanCorpusAll(inbox_doc, Tail(corpus_docs),
                        hamming_threshold, title_similarity, env)
         IN  [warnings |->
                (IF Qualifies(inbox_doc, corpus_doc, hamming_threshold,
                              title_similarity, env)
                 THEN << NearDuplicateWarning(inbox_doc, corpus_doc, env) >>
                 ELSE <<>>) \o rest.warnings,
              examined |-> <<corpus_doc.path>> \o rest.examined]

\* the inner loop over corpus_docs for one inbox document: the warnings it
\* appends and the corpus paths whose loop body ran
RECURSIVE ScanCorpus(_, _, _, _, _)
ScanCorpus(inbox_doc, corpus_docs, hamming_threshold, title_similarity, env) ==
    IF corpus_docs = <<>>
    THEN [warnings |-> <<>>, examined |-> <<>>]
    ELSE LET corpus_doc == Head(corpus_docs)
         IN  IF Qualifies(inbox_doc, corpus_doc, hamming_threshold,
                          title_similarity, env)
             THEN [warnings |->
                        << NearDuplicateWarning(inbox_doc, corpus_doc, env) >>,
                   examined |-> <<corpus_doc.path>>]
             ELSE LET rest == ScanCorpus(inbox_doc, Tail(corpus_docs),
                                  hamming_threshold, title_similarity, env)
                  IN  [warnings |-> rest.warnings,
                       examined |-> <<corpus_doc.path>> \o rest.examined]

InboxDocs(documents) == SelectSeq(documents, LAMBDA d : IsInbox(d.path))

CorpusDocs(documents) == SelectSeq(documents, LAMBDA d : ~IsInbox(d.path))

\* the outer loop over inbox_docs
RECURSIVE ScanInbox(_, _, _, _, _)
ScanInbox(inbox_docs, corpus_docs, hamming_threshold, title_similarity, env) ==
    IF inbox_docs = <<>> THEN <<>>
    ELSE ScanCorpus(Head(inbox_docs), corpus_docs, hamming_threshold,
                    title_similarity, env).warnings
         \o ScanInbox(Tail(inbox_docs), corpus_docs, hamming_threshold,
                      title_similarity, env)

SkippedWarning ==
    ValidationError(SystemPath, Msg("detection_skipped"), TRUE)

\* a detector that appends the notice and goes on to scan the documents
DetectWithoutEarlyReturn(documents, hamming_threshold, title_similarity, env) ==
    (IF ~env.simhash /\ ~env.rapidfuzz THEN << SkippedWarning >> ELSE <<>>)
    \o ScanInbox(InboxDocs(documents), CorpusDocs(documents),
                 hamming_threshold, title_similarity, env)

detect_near_duplicates(documents, hamming_threshold, title_similarity, env) ==
    IF ~env.simhash /\ ~env.rapidfuzz
    THEN << SkippedWarning >>
    ELSE ScanInbox(InboxDocs(documents), CorpusDocs(documents),
                   hamming_threshold, title_similarity, env)

(***************************************************************************)
(* Files, extract_front_matter and collect_documents                       *)
(***************************************************************************)
\* the empty dict
EmptyDict == [k \in {} |-> NoneV]

\* A markdown file.  kind says how far extract_front_matter gets with it:
\*   "plain"     the content does not start with "---"
\*   "unclosed"  content.split("---", 2) yields fewer than three parts
\*   "bad_yaml"  yaml.safe_load raises
\*   "unreadable" open or read raises
\*   "doc"       yaml.safe_load returns the dict front_matter
\*   "inline"    the content starts with "---" and has no closing delimiter
\*               line, but "---" occurs again inside a later line:
\*               content.split("---", 2) yields three parts all the same and
\*               yaml.safe_load returns the dict front_matter for the second
\* body stands for the text after the front-matter block once the markdown
\* characters are replaced and the whitespace is collapsed and stripped.
File(kind, front_matter, body) ==
    [kind |-> kind, front_matter |-> front_matter, body |-> body]

NoFile == File("absent", EmptyDict, "")

\* extract_front_matter: (front_matter or None, content)
extract_front_matter(file) ==
    CASE file.kind \in {"doc", "inline"} ->
            [has_front_matter |-> TRUE, front_matter |-> file.front_matter,
             content |-> file]
      [] file.kind \in {"bad_yaml", "unreadable"} ->
            [has_front_matter |-> FALSE, front_matter |-> EmptyDict,
             content |-> File("", EmptyDict, "")]
      [] OTHER ->
            [has_front_matter |-> FALSE, front_matter |-> EmptyDict,
             content |-> file]

\* hashlib.sha256(content.encode("utf-8")).hexdigest(): a digest names its
\* content
Sha256(content) == [sha256_of |-> content]

\* Simhash(text).value for the body texts of the model
Simhash(text) ==
    CASE text = "alpha" -> {}
      [] text = "alpha-near" -> 1..8
      [] text = "alpha-far" -> 1..9
      [] OTHER -> 0..63

DocumentInfo(path, front_matter, content, content_hash, simhash) ==
    [path |-> path, front_matter |-> front_matter, content |-> content,
     content_hash |-> content_hash, simhash |-> simhash]

DocsDir == <<"d", "o", "c", "s">>

\* docs_dir / rel_path
FullPath(rel_path) == DocsDir \o <<"/">> \o rel_path

DEFAULT_EXCLUDE_PATTERNS ==
    { <<"i", "n", "d", "e", "x", "/">>,
      <<"a", "r", "c", "h", "i", "v", "e", "/">> }

\* a collector that skips only what lies in a directory named by a pattern
ExcludedUnderSubtree(rel_path, exclude_patterns) ==
    \E pattern \in exclude_patterns :
        \/ SubSeq(rel_path, 1, Len(pattern)) = pattern
        \/ Contains(rel_path, <<"/">> \o pattern)

\* any(pattern in str(rel_path) for pattern in exclude_patterns)
Excluded(rel_path, exclude_patterns) ==
    \E pattern \in exclude_patterns : Contains(rel_path, pattern)

\* the simhash_value computed for one file
SimhashOf(file, env) ==
    IF env.simhash /\ file.body # ""
    THEN SimhashValue(Simhash(file.body))
    ELSE NoSimhash

\* the body of the loop of collect_documents for one file: the documents it
\* appends
CollectOne(tree, rel_path, exclude_patterns, env) ==
    LET extracted == extract_front_matter(tree[rel_path])
    IN  IF Excluded(rel_path, exclude_patterns) THEN <<>>
        ELSE IF ~extracted.has_front_matter THEN <<>>
        ELSE << DocumentInfo(FullPath(rel_path), extracted.front_matter,
                    extracted.content, Sha256(extracted.content),
                    SimhashOf(tree[rel_path], env)) >>

\* a collector that gives up at the first file it cannot read or parse
RECURSIVE CollectUntilFailure(_, _, _, _)
CollectUntilFailure(tree, listing, exclude_patterns, env) ==
    IF listing = <<>> THEN <<>>
    ELSE IF /\ ~Excluded(Head(listing), exclude_patterns)
            /\ tree[Head(listing)].kind \in {"bad_yaml", "unreadable"}
    THEN <<>>
    ELSE CollectOne(tree, Head(listing), exclude_patterns, env)
         \o CollectUntilFailure(tree, Tail(listing), exclude_patterns, env)

\* collect_documents; listing is the order in which docs_dir.rglob("*.md")
\* yields the files
RECURSIVE collect_documents(_, _, _, _)
collect_documents(tree, listing, exclude_patterns, env) ==
    IF listing = <<>> THEN <<>>
    ELSE CollectOne(tree, Head(listing), exclude_patterns, env)
         \o collect_documents(tree, Tail(listing), exclude_patterns, env)

(***************************************************************************)
(* generate_registry                                                       *)
(***************************************************************************)
\* the number of documents whose field has the given value
CountWith(documents, field, value) ==
    Cardinality({i \in 1..Len(documents) :
                    Get(documents[i].front_matter, field) = value})

\* a registry that counts every value of the field there is, empty or not
CountByAnyValue(documents, field) ==
    LET values == {Get(documents[i].front_matter, field) :
                        i \in 1..Len(documents)}
        counted == {v \in values : v.t # "none"}
    IN  [v \in counted |-> CountWith(documents, field, v)]

\* registry["by_type"] and registry["by_status"]: the counts per truthy value
CountBy(documents, field) ==
    LET values == {Get(documents[i].front_matter, field) :
                        i \in 1..Len(documents)}
        counted == {v \in values : Truthy(v)}
    IN  [v \in counted |-> CountWith(documents, field, v)]

\* 2 * n + carry, for n a sequence of decimal digits, lowest digit first
RECURSIVE DoubleDigits(_, _)
DoubleDigits(digits, carry) ==
    IF digits = <<>> THEN (IF carry = 0 THEN <<>> ELSE <<carry>>)
    ELSE <<(2 * Head(digits) + carry) % 10>>
         \o DoubleDigits(Tail(digits), (2 * Head(digits) + carry) \div 10)

\* the decimal digits, lowest first, of the integer made of the one-bits at
\* the positions from and above, shifted down by from
RECURSIVE IntDigits(_, _)
IntDigits(bits, from) ==
    IF \A b \in bits : b < from THEN <<>>
    ELSE DoubleDigits(IntDigits(bits, from + 1),
                      IF from \in bits THEN 1 ELSE 0)

\* str(doc.simhash): the decimal rendering of the 64-bit integer
SimhashStr(bits) ==
    LET digits == IntDigits(bits, 0)
    IN  IF digits = <<>> THEN <<"0">>
        ELSE [i \in 1..Len(digits) |-> DigitSeq[digits[Len(digits) + 1 - i] + 1]]

\* one value of a registry record, tagged with where it comes from
EntryValue(tag, val) == [tag |-> tag, val |-> val]

\* doc_entry: path and sha256 first, then every front-matter field (a later
\* assignment to the same key wins), then simhash when there is one
DocEntry(doc) ==
    LET keys == {"path", "sha256"} \cup DOMAIN doc.front_matter
                \cup (IF doc.simhash.present THEN {"simhash"} ELSE {})
    IN  [k \in keys |->
            IF k = "simhash" /\ doc.simhash.present
            THEN EntryValue("simhash", SimhashStr(doc.simhash.bits))
            ELSE IF k \in DOMAIN doc.front_matter
            THEN EntryValue("front_matter", doc.front_matter[k])
            ELSE IF k = "path" THEN EntryValue("path", doc.path)
            ELSE EntryValue("sha256", doc.content_hash)]

\* the registry dict built from the documents at time now
Registry(documents, now) ==
    [generated_at |-> now,
     total_docs |-> Len(documents),
     by_type |-> CountBy(documents, "doc_type"),
     by_status |-> CountBy(documents, "status"),
     docs |-> [i \in 1..Len(documents) |-> DocEntry(documents[i])]]

\* whether json.dump writes the whole registry: it raises TypeError at the
\* first value it cannot serialise
Serializable(documents) ==
    \A i \in 1..Len(documents) :
        \A k \in DOMAIN documents[i].front_matter :
            JsonSerializable(documents[i].front_matter[k])

\* the registry file: absent, complete (json.dump and the final newline
\* written), or truncated (opened with "w", then json.dump raised part-way)
RegistryFile(state, registry) == [state |-> state, registry |-> registry]

NoRegistry == RegistryFile("absent", Registry(<<>>, 0))

\* the file generate_registry leaves at output_path
generate_registry(documents, now) ==
    IF Serializable(documents)
    THEN RegistryFile("complete", Registry(documents, now))
    ELSE RegistryFile("truncated", Registry(<<>>, now))

(***************************************************************************)
(* main                                                                    *)
(***************************************************************************)
\* the loop "for doc in documents" of main: the findings of every document,
\* in document order
RECURSIVE ValidateDocuments(_)
ValidateDocuments(docs) ==
    IF docs = <<>> THEN <<>>
    ELSE validate_front_matter_fields(Head(docs).path,
                Head(docs).front_matter, IsInbox(Head(docs).path))
         \o ValidateDocuments(Tail(docs))

\* the documents whose call returned: those before the first one whose
\* validation raises
RECURSIVE DocumentsChecked(_)
DocumentsChecked(docs) ==
    IF docs = <<>> \/ ValidateRaises(Head(docs).front_matter) THEN <<>>
    ELSE <<Head(docs)>> \o DocumentsChecked(Tail(docs))

\* [e for e in findings if not e.is_warning]
ErrorsOf(findings) == SelectSeq(findings, LAMBDA e : ~e.is_warning)

\* [e for e in findings if e.is_warning]
WarningsOf(findings) == SelectSeq(findings, LAMBDA e : e.is_warning)

\* a main that generates the registry whatever the error list holds
RegistryDecisionIgnoringErrors(pre_commit_flag, errors) ==
    IF pre_commit_flag THEN "skip_pre_commit" ELSE "generate"

\* what main does about the registry once the findings are printed
RegistryDecision(pre_commit_flag, errors) ==
    IF pre_commit_flag THEN "skip_pre_commit"
    ELSE IF errors # <<>> THEN "skip_errors"
    ELSE "generate"

\* a main whose return value counts the warnings too
ExitCodeCountingWarnings(errors, warnings) ==
    IF errors # <<>> \/ warnings # <<>> THEN 1 ELSE 0

\* the value main returns after the summary
ExitCode(errors, warnings) == IF errors # <<>> THEN 1 ELSE 0

(***************************************************************************)
(* The documents the model writes into the tree                            *)
(***************************************************************************)
TitleAb == <<"A", "b">>

TitleAbBang == <<"a", "b", "!">>

TitleAbs == <<"A", "b", "s">>

TitleXy == <<"X", "y">>

DocIdOk ==
    <<"R", "F", "C", "-", "2", "0", "2", "5", "-", "0", "0", "0", "1", "2">>

DateOk == <<"2", "0", "2", "5", "-", "1", "1", "-", "1", "4">>

TypeRfc == <<"r", "f", "c">>

StatusActive == <<"a", "c", "t", "i", "v", "e">>

StatusDraft == <<"d", "r", "a", "f", "t">>

StatusBogus == <<"b", "o", "g", "u", "s">>

\* front matter of a full document
FullFrontMatter(title, canonical, status, created) ==
    [doc_id |-> Str(DocIdOk), title |-> Str(title), doc_type |-> Str(TypeRfc),
     status |-> Str(status), canonical |-> canonical, created |-> created,
     tags |-> ListV(<< <<"t">> >>), summary |-> Str(<<"s">>)]

\* front matter of a minimal (inbox) document
InboxFrontMatter(title, status) ==
    [title |-> Str(title), doc_type |-> Str(TypeRfc), status |-> Str(status),
     created |-> Str(DateOk)]

RelInbox == <<"_", "i", "n", "b", "o", "x", "/", "n", ".", "m", "d">>

RelAdr == <<"a", "d", "r", "/", "a", ".", "m", "d">>

RelRfc == <<"r", "f", "c", "s", "/", "b", ".", "m", "d">>

RelPaths == {RelInbox, RelAdr, RelRfc}

\* a valid canonical document; one whose canonical is a string; a valid one
\* whose created is an unquoted date; a file without front matter
CorpusFiles ==
    { File("doc", FullFrontMatter(TitleAb, Bool(TRUE), StatusActive,
                                  Str(DateOk)), "alpha"),
      File("doc", FullFrontMatter(TitleAbBang, Str(<<"y", "e", "s">>),
                                  StatusActive, Str(DateOk)), "alpha-far"),
      File("doc", FullFrontMatter(TitleXy, Bool(FALSE), StatusActive,
                                  DateV(DateOk)), "alpha-far"),
      File("plain", EmptyDict, "alpha") }

\* a valid submission close to the first corpus file in title and in body;
\* a file whose front matter is not YAML
InboxFiles ==
    { File("doc", InboxFrontMatter(TitleAbs, StatusDraft), "alpha-near"),
      File("bad_yaml", EmptyDict, "alpha") }

FilesFor(rel_path) == IF rel_path = RelInbox THEN InboxFiles ELSE CorpusFiles

EmptyTree == [rel_path \in RelPaths |-> NoFile]

\* the orders in which a file system can list the paths: rglob sorts
\* nothing, it yields the entries as the file system lists them
DirectoryOrders ==
    {order \in [1..Cardinality(RelPaths) -> RelPaths] :
        \A i, j \in 1..Cardinality(RelPaths) : i # j => order[i] # order[j]}

\* what docs_dir.rglob("*.md") yields: the files present, in directory order
Listing(files, order) ==
    SelectSeq(order, LAMBDA rel_path : files[rel_path] # NoFile)

(***************************************************************************)
(* State                                                                   *)
(***************************************************************************)
MaxRuns == 2

MaxEdits == 2

VARIABLES
    tree,               \* the markdown files under docs_dir
    docs_dir_exists,    \* docs_dir.exists()
    registry_file,      \* the file at registry_path
    dir_order,          \* the order in which the file system lists paths
    env,                \* SIMHASH_AVAILABLE and RAPIDFUZZ_AVAILABLE
    pc,                 \* where main is
    pre_commit,         \* args.pre_commit
    docs_found,         \* whether this invocation found docs_dir
    documents,          \* main's documents
    all_errors,         \* main's all_errors
    all_warnings,       \* main's all_warnings
    printed,            \* the ERRORS and WARNINGS sections printed
    exit_code,          \* main's return value, -1 while it has none
    clock,              \* invocations so far; the time of generated_at
    edits,              \* edits of the tree so far
    registry_before,    \* registry_file when this invocation began
    generate_called,    \* whether this invocation called generate_registry
    expected_registry,  \* the registry of the latest run without
                        \* --pre-commit that found no error
    pass_docs,          \* a document list handed to one pass on its own
    pass_config,        \* the thresholds and capabilities of that call
    pass_result,        \* what the pass returned
    pass_state          \* "input", then the name of the pass applied

vars ==
    <<tree, docs_dir_exists, registry_file, dir_order, env, pc, pre_commit,
      docs_found,
      documents, all_errors, all_warnings, printed, exit_code, clock, edits,
      registry_before, generate_called, expected_registry, pass_docs,
      pass_config, pass_result, pass_state>>

passVars == <<pass_docs, pass_config, pass_result, pass_state>>

runVars ==
    <<documents, all_errors, all_warnings, printed>>

\* no invocation is running
Resting == pc = "idle"

\* the defaults of detect_near_duplicates and both capabilities present
DefaultConfig ==
    [hamming_threshold |-> HAMMING_THRESHOLD_DEFAULT,
     title_similarity |-> TITLE_SIMILARITY_DEFAULT,
     env |-> [simhash |-> TRUE, rapidfuzz |-> TRUE]]

NoResult == [findings |-> <<>>, examined |-> <<>>]

\* no pass is called on its own
PassIdle ==
    /\ pass_docs = <<>>
    /\ pass_config = DefaultConfig
    /\ pass_result = NoResult
    /\ pass_state = "input"

NothingPrinted == [errors |-> <<>>, warnings |-> <<>>]

\* no invocation has run and the tree is empty
PipelineAtRest ==
    /\ tree = EmptyTree
    /\ docs_dir_exists = FALSE
    /\ registry_file = NoRegistry
    /\ pc = "idle"
    /\ pre_commit = FALSE
    /\ docs_found = FALSE
    /\ documents = <<>>
    /\ all_errors = <<>>
    /\ all_warnings = <<>>
    /\ printed = NothingPrinted
    /\ exit_code = -1
    /\ clock = 0
    /\ edits = 0
    /\ registry_before = registry_file
    /\ generate_called = FALSE
    /\ expected_registry = registry_file

Init ==
    /\ PipelineAtRest
    /\ dir_order \in DirectoryOrders
    /\ env \in [simhash : BOOLEAN, rapidfuzz : BOOLEAN]
    /\ PassIdle

(***************************************************************************)
(* Edits of the document tree, between invocations                         *)
(***************************************************************************)
WriteFile(rel_path, file) ==
    /\ Resting
    /\ edits < MaxEdits
    /\ tree[rel_path] # file
    /\ tree' = [tree EXCEPT ![rel_path] = file]
    /\ docs_dir_exists' = TRUE
    /\ edits' = edits + 1
    /\ UNCHANGED passVars
    /\ UNCHANGED <<registry_file, dir_order, env, pc, pre_commit, docs_found, runVars,
                   exit_code, clock, registry_before, generate_called,
                   expected_registry>>

DeleteFile(rel_path) ==
    /\ Resting
    /\ edits < MaxEdits
    /\ tree[rel_path] # NoFile
    /\ tree' = [tree EXCEPT ![rel_path] = NoFile]
    /\ edits' = edits + 1
    /\ UNCHANGED passVars
    /\ UNCHANGED <<docs_dir_exists, registry_file, dir_order, env, pc, pre_commit,
                   docs_found, runVars, exit_code, clock, registry_before,
                   generate_called, expected_registry>>

RemoveDocsDir ==
    /\ Resting
    /\ edits < MaxEdits
    /\ docs_dir_exists
    /\ tree' = EmptyTree
    /\ docs_dir_exists' = FALSE
    /\ edits' = edits + 1
    /\ UNCHANGED passVars
    /\ UNCHANGED <<registry_file, dir_order, env, pc, pre_commit, docs_found, runVars,
                   exit_code, clock, registry_before, generate_called,
                   expected_registry>>

(***************************************************************************)
(* One invocation of main, step by step                                    *)
(***************************************************************************)
\* parse_args, and the check that docs_dir exists
Invoke(flag) ==
    /\ Resting
    /\ clock < MaxRuns
    /\ clock' = clock + 1
    /\ pre_commit' = flag
    /\ docs_found' = docs_dir_exists
    /\ documents' = <<>>
    /\ all_errors' = <<>>
    /\ all_warnings' = <<>>
    /\ printed' = NothingPrinted
    /\ registry_before' = registry_file
    /\ generate_called' = FALSE
    /\ IF docs_dir_exists
       THEN pc' = "collect" /\ exit_code' = -1
       ELSE pc' = "exited" /\ exit_code' = 1
    /\ UNCHANGED passVars
    /\ UNCHANGED <<tree, docs_dir_exists, registry_file, dir_order, env, edits,
                   expected_registry>>

\* documents = collect_documents(docs_dir)
Collect ==
    /\ pc = "collect"
    /\ documents' = collect_documents(tree, Listing(tree, dir_order),
                                      DEFAULT_EXCLUDE_PATTERNS, env)
    /\ pc' = "validate"
    /\ UNCHANGED passVars
    /\ UNCHANGED <<tree, docs_dir_exists, registry_file, dir_order, env, pre_commit,
                   docs_found, all_errors, all_warnings, printed, exit_code,
                   clock, edits, registry_before, generate_called,
                   expected_registry>>

\* the loop over documents calling validate_front_matter_fields; a
\* TypeError raised by a call is not caught and ends main
Validate ==
    /\ pc = "validate"
    /\ LET checked == DocumentsChecked(documents)
           errors == ValidateDocuments(checked)
       IN  /\ all_errors' = all_errors \o ErrorsOf(errors)
           /\ all_warnings' = all_warnings \o WarningsOf(errors)
           /\ pc' = IF checked = documents THEN "canonical" ELSE "crashed"
    /\ UNCHANGED passVars
    /\ UNCHANGED <<tree, docs_dir_exists, registry_file, dir_order, env, pre_commit,
                   docs_found, documents, printed, exit_code, clock, edits,
                   registry_before, generate_called, expected_registry>>

\* canonical_errors = check_canonical_uniqueness(documents)
CheckCanonical ==
    /\ pc = "canonical"
    /\ LET canonical_errors == check_canonical_uniqueness(documents)
       IN  /\ all_errors' = all_errors \o ErrorsOf(canonical_errors)
           /\ all_warnings' = all_warnings \o WarningsOf(canonical_errors)
    /\ pc' = "duplicates"
    /\ UNCHANGED passVars
    /\ UNCHANGED <<tree, docs_dir_exists, registry_file, dir_order, env, pre_commit,
                   docs_found, documents, printed, exit_code, clock, edits,
                   registry_before, generate_called, expected_registry>>

\* duplicate_warnings = detect_near_duplicates(documents)
DetectDuplicates ==
    /\ pc = "duplicates"
    /\ all_warnings' = all_warnings
            \o detect_near_duplicates(documents, HAMMING_THRESHOLD_DEFAULT,
                                      TITLE_SIMILARITY_DEFAULT, env)
    /\ pc' = "print"
    /\ UNCHANGED passVars
    /\ UNCHANGED <<tree, docs_dir_exists, registry_file, dir_order, env, pre_commit,
                   docs_found, documents, all_errors, printed, exit_code,
                   clock, edits, registry_before, generate_called,
                   expected_registry>>

\* every finding the passes of this run produced
FindingsOfRun ==
    ValidateDocuments(documents)
    \o check_canonical_uniqueness(documents)
    \o detect_near_duplicates(documents, HAMMING_THRESHOLD_DEFAULT,
                              TITLE_SIMILARITY_DEFAULT, env)

\* a main that prints its findings before it looks for near-duplicates
PrintBeforeDuplicates ==
    /\ pc = "duplicates"
    /\ printed' = [errors |-> all_errors, warnings |-> all_warnings]
    /\ expected_registry' =
            IF ~pre_commit /\ ErrorsOf(FindingsOfRun) = <<>>
            THEN RegistryFile("complete", Registry(documents, clock))
            ELSE expected_registry
    /\ pc' = "registry"
    /\ UNCHANGED passVars
    /\ UNCHANGED <<tree, docs_dir_exists, registry_file, dir_order, env, pre_commit,
                   docs_found, documents, all_errors, all_warnings,
                   exit_code, clock, edits, registry_before,
                   generate_called>>

\* the ERRORS and WARNINGS sections
PrintFindings ==
    /\ pc = "print"
    /\ printed' = [errors |-> all_errors, warnings |-> all_warnings]
    /\ expected_registry' =
            IF ~pre_commit /\ ErrorsOf(FindingsOfRun) = <<>>
            THEN RegistryFile("complete", Registry(documents, clock))
            ELSE expected_registry
    /\ pc' = "registry"
    /\ UNCHANGED passVars
    /\ UNCHANGED <<tree, docs_dir_exists, registry_file, dir_order, env, pre_commit,
                   docs_found, documents, all_errors, all_warnings,
                   exit_code, clock, edits, registry_before,
                   generate_called>>

\* --pre-commit: no registry generation
SkipRegistryPreCommit ==
    /\ pc = "registry"
    /\ RegistryDecision(pre_commit, all_errors) = "skip_pre_commit"
    /\ pc' = "summary"
    /\ UNCHANGED passVars
    /\ UNCHANGED <<tree, docs_dir_exists, registry_file, dir_order, env, pre_commit,
                   docs_found, runVars, exit_code, clock, edits,
                   registry_before, generate_called, expected_registry>>

\* "Skipping registry generation due to validation errors"
SkipRegistryErrors ==
    /\ pc = "registry"
    /\ RegistryDecision(pre_commit, all_errors) = "skip_errors"
    /\ pc' = "summary"
    /\ UNCHANGED passVars
    /\ UNCHANGED <<tree, docs_dir_exists, registry_file, dir_order, env, pre_commit,
                   docs_found, runVars, exit_code, clock, edits,
                   registry_before, generate_called, expected_registry>>

\* generate_registry(documents, registry_path); the TypeError json.dump
\* raises is not caught and ends main
GenerateRegistry ==
    /\ pc = "registry"
    /\ RegistryDecision(pre_commit, all_errors) = "generate"
    /\ registry_file' = generate_registry(documents, clock)
    /\ generate_called' = TRUE
    /\ pc' = IF Serializable(documents) THEN "summary" ELSE "crashed"
    /\ UNCHANGED passVars
    /\ UNCHANGED <<tree, docs_dir_exists, dir_order, env, pre_commit, docs_found,
                   runVars, exit_code, clock, edits, registry_before,
                   expected_registry>>

\* the summary and the return value
Summary ==
    /\ pc = "summary"
    /\ exit_code' = ExitCode(all_errors, all_warnings)
    /\ pc' = "exited"
    /\ UNCHANGED passVars
    /\ UNCHANGED <<tree, docs_dir_exists, registry_file, dir_order, env, pre_commit,
                   docs_found, runVars, clock, edits, registry_before,
                   generate_called, expected_registry>>

\* the process ends, by sys.exit(main()) or by the uncaught exception, and
\* its memory with it
ProcessEnds ==
    /\ pc \in {"exited", "crashed"}
    /\ pc' = "idle"
    /\ pre_commit' = FALSE
    /\ docs_found' = FALSE
    /\ documents' = <<>>
    /\ all_errors' = <<>>
    /\ all_warnings' = <<>>
    /\ printed' = NothingPrinted
    /\ exit_code' = -1
    /\ generate_called' = FALSE
    /\ registry_before' = registry_file
    /\ UNCHANGED passVars
    /\ UNCHANGED <<tree, docs_dir_exists, registry_file, dir_order, env, clock, edits,
                   expected_registry>>

Next ==
    \/ \E rel_path \in RelPaths : \E file \in FilesFor(rel_path) :
            WriteFile(rel_path, file)
    \/ \E rel_path \in RelPaths : DeleteFile(rel_path)
    \/ RemoveDocsDir
    \/ \E flag \in BOOLEAN : Invoke(flag)
    \/ Collect
    \/ Validate
    \/ CheckCanonical
    \/ DetectDuplicates
    \/ PrintFindings
    \/ SkipRegistryPreCommit
    \/ SkipRegistryErrors
    \/ GenerateRegistry
    \/ Summary
    \/ ProcessEnds

Spec == Init /\ [][Next]_vars

(***************************************************************************)
(* The passes called on their own, as the unit tests call them: on a list  *)
(* of DocumentInfo built by hand                                           *)
(***************************************************************************)
pipelineVars ==
    <<tree, docs_dir_exists, registry_file, dir_order, env, pc, pre_commit,
      docs_found, runVars, exit_code, clock, edits, registry_before,
      generate_called, expected_registry>>

\* the pipeline stays out of the way of a pass called on its own
PipelineAside ==
    /\ PipelineAtRest
    /\ dir_order = <<RelAdr, RelInbox, RelRfc>>
    /\ env = DefaultConfig.env

RelInboxOther == <<"_", "i", "n", "b", "o", "x", "/", "m", ".", "m", "d">>

\* DocumentInfo(path, front_matter, "", "", simhash) of the tests
PassDocument(rel_path, front_matter, simhash) ==
    DocumentInfo(FullPath(rel_path), front_matter, File("doc", front_matter, ""),
                 Sha256(File("doc", front_matter, "")), simhash)

\* a slot of the document list that holds no document
NoDocument == PassDocument(<<>>, EmptyDict, NoSimhash)

\* the documents of the slots that hold one, in slot order
Present(slots) == SelectSeq(slots, LAMBDA d : d # NoDocument)

TitleSpaced == <<"a", " ", "b">>

TitleRagged == <<"A", " ", "\t", "b", " ">>

TitleBang == <<"!">>

TitleBlankQuery == <<" ", "?">>

\* front matters for the uniqueness check: a title or none, and canonical
\* absent, true, false or the string "yes"
CanonicalTitles ==
    {TitleAb, TitleAbBang, TitleAbs, TitleSpaced, TitleRagged, TitleBang,
     TitleBlankQuery}

CanonicalValues == {Bool(TRUE), Bool(FALSE), Str(<<"y", "e", "s">>)}

CanonicalFrontMatters ==
    {[title |-> Str(t), canonical |-> c] :
        t \in CanonicalTitles, c \in CanonicalValues}
    \cup {[title |-> Str(t)] : t \in CanonicalTitles}
    \cup {[canonical |-> c] : c \in CanonicalValues}
    \cup {EmptyDict}

CanonicalSlot(rel_path) ==
    {PassDocument(rel_path, fm, NoSimhash) : fm \in CanonicalFrontMatters}
    \cup {NoDocument}

CanonicalInputs ==
    {Present(<<a, n, b>>) :
        a \in CanonicalSlot(RelAdr), n \in CanonicalSlot(RelInbox),
        b \in CanonicalSlot(RelRfc)}

InitCanonical ==
    /\ PipelineAside
    /\ pass_docs \in CanonicalInputs
    /\ pass_config = DefaultConfig
    /\ pass_result = NoResult
    /\ pass_state = "input"

\* errors = check_canonical_uniqueness(docs)
ApplyCanonical ==
    /\ pass_state = "input"
    /\ pass_result' =
            [findings |-> check_canonical_uniqueness(pass_docs),
             examined |-> <<>>]
    /\ pass_state' = "canonical"
    /\ UNCHANGED <<pipelineVars, pass_docs, pass_config>>

NextCanonical == ApplyCanonical

SpecCanonical == InitCanonical /\ [][NextCanonical]_vars

\* front matters and fingerprints for the near-duplicate pass
DuplicateFrontMatters ==
    {[title |-> Str(t)] : t \in {TitleAb, TitleAbs, TitleXy}} \cup {EmptyDict}

DuplicateSimhashes ==
    {NoSimhash, SimhashValue(Simhash("alpha")),
     SimhashValue(Simhash("alpha-near")), SimhashValue(Simhash("alpha-far"))}

DuplicateSlot(rel_path) ==
    {PassDocument(rel_path, fm, h) :
        fm \in DuplicateFrontMatters, h \in DuplicateSimhashes}

\* a second corpus document and a second inbox document, or none
SecondCorpusSlot ==
    {NoDocument,
     PassDocument(RelRfc, [title |-> Str(TitleAb)], NoSimhash),
     PassDocument(RelRfc, [title |-> Str(TitleAbs)],
                  SimhashValue(Simhash("alpha"))),
     PassDocument(RelRfc, [title |-> Str(TitleXy)],
                  SimhashValue(Simhash("alpha-near"))),
     PassDocument(RelRfc, EmptyDict, SimhashValue(Simhash("alpha-far")))}

SecondInboxSlot ==
    {NoDocument,
     PassDocument(RelInboxOther, [title |-> Str(TitleAb)],
                  SimhashValue(Simhash("alpha")))}

DuplicateInputs ==
    {Present(<<a, n, b, m>>) :
        a \in DuplicateSlot(RelAdr), n \in DuplicateSlot(RelInbox),
        b \in SecondCorpusSlot, m \in SecondInboxSlot}

\* the defaults, the strictest thresholds, thresholds every pair meets, and
\* a distance threshold beyond every distance
DuplicateThresholds ==
    { <<HAMMING_THRESHOLD_DEFAULT, TITLE_SIMILARITY_DEFAULT>>,
      <<0, 100>>, <<SIMHASH_BITS, 0>>, <<HAMMING_NOT_COMPUTED, 100>> }

DuplicateConfigs ==
    {[hamming_threshold |-> th[1], title_similarity |-> th[2], env |-> e] :
        th \in DuplicateThresholds,
        e \in [simhash : BOOLEAN, rapidfuzz : BOOLEAN]}

\* the corpus paths whose loop body ran, for each inbox document in turn
ExaminedPerInbox(docs, hamming_threshold, title_similarity, caps) ==
    IF ~caps.simhash /\ ~caps.rapidfuzz THEN <<>>
    ELSE [i \in 1..Len(InboxDocs(docs)) |->
            ScanCorpus(InboxDocs(docs)[i], CorpusDocs(docs),
                       hamming_threshold, title_similarity, caps).examined]

InitDuplicates ==
    /\ PipelineAside
    /\ pass_docs \in DuplicateInputs
    /\ pass_config \in DuplicateConfigs
    /\ pass_result = NoResult
    /\ pass_state = "input"

\* warnings = detect_near_duplicates(docs, hamming_threshold, title_similarity)
ApplyDuplicates ==
    /\ pass_state = "input"
    /\ pass_result' =
            [findings |->
                detect_near_duplicates(pass_docs,
                    pass_config.hamming_threshold,
                    pass_config.title_similarity, pass_config.env),
             examined |->
                ExaminedPerInbox(pass_docs, pass_config.hamming_threshold,
                    pass_config.title_similarity, pass_config.env)]
    /\ pass_state' = "duplicates"
    /\ UNCHANGED <<pipelineVars, pass_docs, pass_config>>

NextDuplicates == ApplyDuplicates

SpecDuplicates == InitDuplicates /\ [][NextDuplicates]_vars

(***************************************************************************)
(* validate_front_matter_fields called on its own, as the unit tests call  *)
(* it: on a front matter and an is_inbox flag                              *)
(***************************************************************************)
\* front_matter with front_matter[key] = value
WithField(front_matter, key, value) ==
    [k \in DOMAIN front_matter \cup {key} |->
        IF k = key THEN value ELSE front_matter[k]]

\* front_matter restricted to the keys
OnlyFields(front_matter, keys) ==
    [k \in DOMAIN front_matter \cap keys |-> front_matter[k]]

\* a complete, valid front matter, with the optional updated field
ValidFrontMatter ==
    WithField(FullFrontMatter(TitleAb, Bool(TRUE), StatusActive, Str(DateOk)),
              "updated", Str(DateOk))

\* every choice of which fields are there
PresenceFrontMatters ==
    {OnlyFields(ValidFrontMatter, keys) :
        keys \in SUBSET DOMAIN ValidFrontMatter}

\* values for doc_type and status: a member, a non-member, the empty
\* string, false, and null
EnumValues(member) ==
    {Str(member), Str(StatusBogus), Str(<<>>), Bool(FALSE), NoneV}

EnumFrontMatters ==
    {WithField(WithField(ValidFrontMatter, "doc_type", t), "status", st) :
        t \in EnumValues(TypeRfc), st \in EnumValues(StatusActive)}

\* doc_id values: RFC-2025-00012, ADR-2024-99999, rfc-2025-00001,
\* RFC-25-00001, RFC-2025-001, RFC-2025-0001, RFC20250001, -2025-00001,
\* RFC-2025-000123, RFC-2025-00012 with a final newline, and the empty string
DocIdValues ==
    {DocIdOk,
     <<"A", "D", "R", "-", "2", "0", "2", "4", "-", "9", "9", "9", "9", "9">>,
     <<"r", "f", "c", "-", "2", "0", "2", "5", "-", "0", "0", "0", "0", "1">>,
     <<"R", "F", "C", "-", "2", "5", "-", "0", "0", "0", "0", "1">>,
     <<"R", "F", "C", "-", "2", "0", "2", "5", "-", "0", "0", "1">>,
     <<"R", "F", "C", "-", "2", "0", "2", "5", "-", "0", "0", "0", "1">>,
     <<"R", "F", "C", "2", "0", "2", "5", "0", "0", "0", "1">>,
     <<"-", "2", "0", "2", "5", "-", "0", "0", "0", "0", "1">>,
     <<"R", "F", "C", "-", "2", "0", "2", "5", "-", "0", "0", "0", "1", "2", "3">>,
     DocIdOk \o <<"\n">>,
     <<>>}

DocIdFrontMatters ==
    {WithField(ValidFrontMatter, "doc_id", Str(id)) : id \in DocIdValues}

\* date values: 2025-11-14, 2024-02-29, 2025-02-29, 2025-02-30, 2025-13-01,
\* 2025-2-30, 2025-2-3, 2025-11-14 with a final newline, the empty string
DateValues ==
    {DateOk,
     <<"2", "0", "2", "4", "-", "0", "2", "-", "2", "9">>,
     <<"2", "0", "2", "5", "-", "0", "2", "-", "2", "9">>,
     <<"2", "0", "2", "5", "-", "0", "2", "-", "3", "0">>,
     <<"2", "0", "2", "5", "-", "1", "3", "-", "0", "1">>,
     <<"2", "0", "2", "5", "-", "2", "-", "3", "0">>,
     <<"2", "0", "2", "5", "-", "2", "-", "3">>,
     DateOk \o <<"\n">>,
     <<>>}

DateFrontMatters ==
    {WithField(WithField(ValidFrontMatter, "created", Str(c)),
               "updated", Str(u)) : c \in DateValues, u \in DateValues}
    \cup {WithField(ValidFrontMatter, "created", DateV(DateOk))}

\* tags values: lists, the string "not-a-list", the empty string, 0, false,
\* null
TagsValues ==
    {ListV(<< <<"t">> >>), ListV(<<>>),
     Str(<<"n", "o", "t", "-", "a", "-", "l", "i", "s", "t">>),
     Str(<<>>), IntV(0), Bool(FALSE), NoneV}

TagsFrontMatters ==
    {WithField(fm, "tags", tags) :
        fm \in {ValidFrontMatter,
                WithField(ValidFrontMatter, "status", Str(StatusBogus)),
                InboxFrontMatter(TitleAb, StatusDraft)},
        tags \in TagsValues}
    \cup {InboxFrontMatter(TitleAb, StatusDraft)}

\* a doc_type or a status written as a YAML list, in a document that is
\* complete, and in one that also breaks the rules that come later
ListedFrontMatters ==
    {WithField(fm, field, ListV(<< TypeRfc >>)) :
        fm \in {ValidFrontMatter,
                WithField(WithField(ValidFrontMatter, "doc_id",
                                    Str(<<"r", "f", "c">>)),
                          "canonical", Str(<<"y", "e", "s">>))},
        field \in {"doc_type", "status"}}

\* a document that breaks the vocabulary rule and the rules after it
LaterRulesFrontMatter ==
    WithField(WithField(WithField(ValidFrontMatter, "doc_type",
                                  Str(StatusBogus)),
                        "doc_id", Str(<<"r", "f", "c">>)),
              "canonical", Str(<<"y", "e", "s">>))

ValidateFrontMatters ==
    PresenceFrontMatters \cup EnumFrontMatters \cup DocIdFrontMatters
    \cup DateFrontMatters \cup TagsFrontMatters \cup ListedFrontMatters
    \cup {LaterRulesFrontMatter}

InitValidate ==
    /\ PipelineAside
    /\ pass_docs \in
            { << PassDocument(rel_path, fm, NoSimhash) >> :
                rel_path \in {RelAdr, RelInbox}, fm \in ValidateFrontMatters }
    /\ pass_config \in [is_inbox : BOOLEAN]
    /\ pass_result = NoResult
    /\ pass_state = "input"

\* errors = validate_front_matter_fields(doc_path, front_matter, is_inbox)
ApplyValidate ==
    /\ pass_state = "input"
    /\ pass_result' =
            [findings |->
                IF ValidateRaises(pass_docs[1].front_matter) THEN <<>>
                ELSE validate_front_matter_fields(pass_docs[1].path,
                        pass_docs[1].front_matter, pass_config.is_inbox),
             examined |-> <<>>,
             raised |-> ValidateRaises(pass_docs[1].front_matter)]
    /\ pass_state' = "validated"
    /\ UNCHANGED <<pipelineVars, pass_docs, pass_config>>

NextValidate == ApplyValidate

SpecValidate == InitValidate /\ [][NextValidate]_vars

(***************************************************************************)
(* collect_documents called on its own, on a directory that also holds     *)
(* files under index/, archive/ and reindex/                               *)
(***************************************************************************)
RelIndex == <<"i", "n", "d", "e", "x", "/", "r", ".", "m", "d">>

RelArchive == <<"a", "r", "c", "h", "i", "v", "e", "/", "o", ".", "m", "d">>

RelReindex == <<"r", "e", "i", "n", "d", "e", "x", "/", "c", ".", "m", "d">>

CollectPaths == {RelAdr, RelInbox, RelIndex, RelArchive, RelReindex}

CollectDoc == File("doc", InboxFrontMatter(TitleAb, StatusDraft), "alpha")

\* what a file of the directory can be: a document, or a file that yields
\* no front matter for one of four reasons
AnyFiles ==
    {NoFile, CollectDoc,
     File("inline", InboxFrontMatter(TitleXy, StatusDraft), "alpha")} \cup
    {File(kind, EmptyDict, "alpha") :
        kind \in {"plain", "unclosed", "bad_yaml", "unreadable"}}

SomeFiles == {NoFile, CollectDoc, File("plain", EmptyDict, "alpha")}

CollectTrees ==
    {t \in [CollectPaths -> AnyFiles] :
        \A rel_path \in {RelIndex, RelArchive, RelReindex} :
            t[rel_path] \in SomeFiles}

\* two orders in which the directory may be listed
CollectOrders ==
    { <<RelInbox, RelAdr, RelArchive, RelIndex, RelReindex>>,
      <<RelReindex, RelAdr, RelIndex, RelInbox, RelArchive>> }

\* exclude_patterns: the default, a pattern of the caller's, none
CollectPatterns ==
    {DEFAULT_EXCLUDE_PATTERNS, { <<"a", "d", "r", "/">> }, {}}

InitCollect ==
    /\ PipelineAside
    /\ pass_docs = <<>>
    /\ pass_config \in
            [tree : CollectTrees, order : CollectOrders,
             exclude_patterns : CollectPatterns,
             env : {[simhash |-> TRUE, rapidfuzz |-> TRUE],
                    [simhash |-> FALSE, rapidfuzz |-> TRUE]}]
    /\ pass_result = NoResult
    /\ pass_state = "input"

\* documents = collect_documents(docs_dir, exclude_patterns)
ApplyCollect ==
    /\ pass_state = "input"
    /\ pass_result' =
            [documents |->
                collect_documents(pass_config.tree,
                    Listing(pass_config.tree, pass_config.order),
                    pass_config.exclude_patterns, pass_config.env)]
    /\ pass_state' = "collected"
    /\ UNCHANGED <<pipelineVars, pass_docs, pass_config>>

NextCollect == ApplyCollect

SpecCollect == InitCollect /\ [][NextCollect]_vars

(***************************************************************************)
(* generate_registry called on its own, on a list of DocumentInfo          *)
(***************************************************************************)
TypeAdr == <<"a", "d", "r">>

\* front matters with a doc_type and a status, each a member, the empty
\* string, or not there
RegistryFrontMatters ==
    {OnlyFields(WithField(WithField(ValidFrontMatter, "doc_type", t),
                          "status", st), keys) :
        t \in {Str(TypeRfc), Str(TypeAdr), Str(<<>>)},
        st \in {Str(StatusActive), Str(StatusDraft), Str(<<>>)},
        keys \in {DOMAIN ValidFrontMatter \ dropped :
                    dropped \in SUBSET {"doc_type", "status"}}}

\* documents with a fingerprint, and documents whose front matter has a key
\* named path, sha256 or simhash
RegistryFingerprints ==
    {NoSimhash, SimhashValue(Simhash("alpha")),
     SimhashValue(Simhash("alpha-near")), SimhashValue({3, 35})}

RegistryKeyed ==
    {ValidFrontMatter} \cup
    {WithField(ValidFrontMatter, key, Str(<<"x">>)) :
        key \in {"path", "sha256", "simhash"}}

RegistrySlot(rel_path) ==
    {PassDocument(rel_path, fm, NoSimhash) : fm \in RegistryFrontMatters}
    \cup {PassDocument(rel_path, fm, h) :
                fm \in RegistryKeyed, h \in RegistryFingerprints}
    \cup {NoDocument}

RegistryInputs ==
    {Present(<<a, n, b>>) :
        a \in RegistrySlot(RelAdr), n \in RegistrySlot(RelInbox),
        b \in RegistrySlot(RelRfc)}

InitRegistry ==
    /\ PipelineAside
    /\ pass_docs \in RegistryInputs
    /\ pass_config = DefaultConfig
    /\ pass_result = NoResult
    /\ pass_state = "input"

\* generate_registry(docs, registry_path)
ApplyRegistry ==
    /\ pass_state = "input"
    /\ pass_result' = [registry_file |-> generate_registry(pass_docs, 1)]
    /\ pass_state' = "generated"
    /\ UNCHANGED <<pipelineVars, pass_docs, pass_config>>

NextRegistry == ApplyRegistry

SpecRegistry == InitRegistry /\ [][NextRegistry]_vars

(***************************************************************************)
(* main run twice, without --pre-commit, over one tree that nobody edits   *)
(* in between; the file system lists the directory each time               *)
(***************************************************************************)
\* documents complete but for the value of doc_type or of status, which is
\* the empty string or null
UntypedFiles ==
    {File("doc", [FullFrontMatter(TitleXy, Bool(FALSE), StatusActive,
                                  Str(DateOk)) EXCEPT ![field] = value],
          "alpha-far") :
        field \in {"doc_type", "status"}, value \in {Str(<<>>), NoneV}}

TwiceTrees ==
    {t \in [RelPaths -> CorpusFiles \cup UntypedFiles \cup InboxFiles
                            \cup {NoFile}] :
        /\ t[RelInbox] \in InboxFiles \cup {NoFile}
        /\ t[RelAdr] \in CorpusFiles \cup {NoFile}
        /\ t[RelRfc] \in CorpusFiles \cup UntypedFiles \cup {NoFile}}

\* main without --pre-commit, from collect_documents to the registry: the
\* file it leaves at registry_path, which is the file from before when the
\* run finds an error
MainRegistry(files, order, caps, now, before) ==
    LET docs == collect_documents(files, Listing(files, order),
                                  DEFAULT_EXCLUDE_PATTERNS, caps)
        findings == ValidateDocuments(docs)
                    \o check_canonical_uniqueness(docs)
                    \o detect_near_duplicates(docs, HAMMING_THRESHOLD_DEFAULT,
                                              TITLE_SIMILARITY_DEFAULT, caps)
    IN  IF RegistryDecision(FALSE, ErrorsOf(findings)) = "generate"
        THEN generate_registry(docs, now)
        ELSE before

InitTwice ==
    /\ PipelineAside
    /\ pass_docs = <<>>
    /\ pass_config \in
            [tree : TwiceTrees, first_order : DirectoryOrders,
             second_order : DirectoryOrders,
             env : {[simhash |-> TRUE, rapidfuzz |-> TRUE]}]
    /\ pass_result = NoResult
    /\ pass_state = "input"

\* the first run over the tree
FirstRun ==
    /\ pass_state = "input"
    /\ pass_result' =
            [first |-> MainRegistry(pass_config.tree,
                            pass_config.first_order, pass_config.env, 1,
                            NoRegistry)]
    /\ pass_state' = "first"
    /\ UNCHANGED <<pipelineVars, pass_docs, pass_config>>

\* the second run over the same tree
SecondRun ==
    /\ pass_state = "first"
    /\ pass_result' =
            [first |-> pass_result.first,
             second |-> MainRegistry(pass_config.tree,
                            pass_config.second_order, pass_config.env, 2,
                            pass_result.first)]
    /\ pass_state' = "second"
    /\ UNCHANGED <<pipelineVars, pass_docs, pass_config>>

NextTwice == FirstRun \/ SecondRun

SpecTwice == InitTwice /\ [][NextTwice]_vars

(***************************************************************************)
(* Properties of main                                                      *)
(***************************************************************************)
\* the invocation is over: main returned, or an exception ended it
InvocationOver == pc \in {"exited", "crashed"}

C2_RegistryIsLatestCleanRun ==
    Resting => registry_file = expected_registry

PathSorted(findings) ==
    \A i, j \in 1..Len(findings) :
        i < j => PathLeq(findings[i].path, findings[j].path)

\* C4: the printed error list and the printed warning list are each in
\* non-decreasing order of path, whatever order the passes produced the
\* findings in.
C4_PrintedInPathOrder ==
    PathSorted(printed.errors) /\ PathSorted(printed.warnings)

(***************************************************************************)
(* Properties of check_canonical_uniqueness                                *)
(***************************************************************************)
\* the document's canonical is the boolean true
IsCanonicalTrue(doc) == Get(doc.front_matter, "canonical") = Bool(TRUE)

\* the normalized title of a document
ConceptKey(doc) == NormalizeTitle(GetTitle(doc.front_matter).s)

PathsOf(docs) == [i \in 1..Len(docs) |-> docs[i].path]

\* the paths of the canonical documents that carry the key, in list order
CanonicalGroup(docs, key) ==
    PathsOf(SelectSeq(docs,
                LAMBDA d : IsCanonicalTrue(d) /\ ConceptKey(d) = key))

UniquenessFindings(findings, key) ==
    SelectSeq(findings, LAMBDA f : f.message.concept = key)

\* C5: check_canonical_uniqueness emits exactly one error for every group
\* of two or more canonical documents that share a normalized title,
\* attributed to the first path of the group and listing every colliding
\* path, and none for a normalized title that exactly one canonical
\* document (or none) carries.
C5_OneErrorPerCollidingGroup ==
    pass_state = "canonical" =>
        LET findings == pass_result.findings
            keys == {ConceptKey(pass_docs[i]) : i \in 1..Len(pass_docs)}
                    \cup {findings[i].message.concept :
                                i \in 1..Len(findings)}
        IN  \A key \in keys :
                LET group == CanonicalGroup(pass_docs, key)
                    found == UniquenessFindings(findings, key)
                IN  IF Len(group) >= 2
                    THEN /\ Len(found) = 1
                         /\ ~found[1].is_warning
                         /\ found[1].path = group[1]
                         /\ found[1].message.paths = group
                    ELSE found = <<>>

\* C6: only the documents whose canonical is the boolean true take part in
\* the uniqueness check: any other document is neither the path of a
\* finding nor listed in one, and the findings are those of the list without
\* such documents.
C6_OnlyCanonicalTrueTakesPart ==
    pass_state = "canonical" =>
        LET findings == pass_result.findings
        IN  /\ \A i \in 1..Len(pass_docs) : \A j \in 1..Len(findings) :
                    ~IsCanonicalTrue(pass_docs[i]) =>
                        /\ findings[j].path # pass_docs[i].path
                        /\ \A k \in 1..Len(findings[j].message.paths) :
                              findings[j].message.paths[k] # pass_docs[i].path
            /\ findings = check_canonical_uniqueness(
                                SelectSeq(pass_docs, IsCanonicalTrue))

(***************************************************************************)
(* Properties of detect_near_duplicates                                    *)
(***************************************************************************)
\* at least one of simhash and rapidfuzz is available to the call
SomeCapability == pass_config.env.simhash \/ pass_config.env.rapidfuzz

\* the per-document warnings whose path is that of the document
WarningsAbout(doc) ==
    SelectSeq(pass_result.findings,
        LAMBDA f : f.message.kind = "near_duplicate" /\ f.path = doc.path)

Hits(inbox_doc) ==
    {j \in 1..Len(CorpusDocs(pass_docs)) :
        Qualifies(inbox_doc, CorpusDocs(pass_docs)[j],
                  pass_config.hamming_threshold,
                  pass_config.title_similarity, pass_config.env)}

First(S) == CHOOSE j \in S : \A k \in S : j <= k

\* C8: for each inbox document detect_near_duplicates emits at most one
\* warning; when it emits one, the warning names the first corpus document
\* in scan order that qualifies, and no corpus document after that one is
\* examined for that inbox document.
C8_FirstMatchOnly ==
    (pass_state = "duplicates" /\ SomeCapability) =>
        \A i \in 1..Len(InboxDocs(pass_docs)) :
            LET inbox_doc == InboxDocs(pass_docs)[i]
                corpus == CorpusDocs(pass_docs)
                mine == WarningsAbout(inbox_doc)
            IN  /\ Len(mine) <= 1
                /\ IF Hits(inbox_doc) = {}
                   THEN /\ mine = <<>>
                        /\ pass_result.examined[i] = PathsOf(corpus)
                   ELSE LET first == First(Hits(inbox_doc))
                        IN  /\ Len(mine) = 1
                            /\ mine[1].message.corpus = corpus[first].path
                            /\ pass_result.examined[i] =
                                    PathsOf(SubSeq(corpus, 1, first))

\* two corpus documents qualify for an inbox document that got one warning,
\* and the second of them was not examined
C8_SeveralQualify ==
    /\ pass_state = "duplicates"
    /\ SomeCapability
    /\ \E i \in 1..Len(InboxDocs(pass_docs)) :
            /\ Cardinality(Hits(InboxDocs(pass_docs)[i])) >= 2
            /\ Len(WarningsAbout(InboxDocs(pass_docs)[i])) = 1
            /\ Len(pass_result.examined[i]) = 1

\* the similarity of two documents' titles, whatever is installed
TitleSimilarityOf(inbox_doc, corpus_doc) ==
    TitleSim(inbox_doc, corpus_doc, [simhash |-> TRUE, rapidfuzz |-> TRUE])

\* the Hamming distance of two documents' fingerprints, whatever is
\* installed
FingerprintDistanceOf(inbox_doc, corpus_doc) ==
    HammingDist(inbox_doc, corpus_doc, [simhash |-> TRUE, rapidfuzz |-> TRUE])

\* no warning is about a corpus document, and every warning about an inbox
\* document names a corpus document
OnlyInboxAgainstCorpus ==
    /\ \A j \in 1..Len(CorpusDocs(pass_docs)) :
            WarningsAbout(CorpusDocs(pass_docs)[j]) = <<>>
    /\ \A i \in 1..Len(pass_result.findings) :
            pass_result.findings[i].message.kind = "near_duplicate" =>
                /\ IsInbox(pass_result.findings[i].path)
                /\ ~IsInbox(pass_result.findings[i].message.corpus)

\* C9 (as stated, whatever is installed): an inbox document receives a
\* near-duplicate warning if and only if some corpus document has title
\* similarity >= title_similarity with it or fingerprint Hamming distance
\* <= hamming_threshold from it; inbox documents are not compared with one
\* another and a corpus document receives no warning.
C9_FlaggedIffSimilarAsStated ==
    pass_state = "duplicates" =>
        /\ \A i \in 1..Len(InboxDocs(pass_docs)) :
                LET inbox_doc == InboxDocs(pass_docs)[i]
                IN  WarningsAbout(inbox_doc) # <<>> <=>
                        \E j \in 1..Len(CorpusDocs(pass_docs)) :
                            LET corpus_doc == CorpusDocs(pass_docs)[j]
                                sim == TitleSimilarityOf(inbox_doc, corpus_doc)
                            IN  \/ sim.num >=
                                      pass_config.title_similarity * sim.den
                                \/ FingerprintDistanceOf(inbox_doc,
                                                          corpus_doc)
                                      <= pass_config.hamming_threshold
        /\ OnlyInboxAgainstCorpus

\* C9: when at least one similarity capability is available, an inbox
\* document receives a near-duplicate warning if and only if some corpus
\* document has computed title similarity >= title_similarity with it or
\* computed Hamming distance <= hamming_threshold from it, where the title
\* similarity is 0 when rapidfuzz is unavailable or a title is empty and the
\* distance is 999 when simhash is unavailable or a fingerprint is missing;
\* inbox documents are not compared with one another and a corpus document
\* receives no warning.
C9_FlaggedIffComputedSimilar ==
    (pass_state = "duplicates" /\ SomeCapability) =>
        /\ \A i \in 1..Len(InboxDocs(pass_docs)) :
                LET inbox_doc == InboxDocs(pass_docs)[i]
                IN  WarningsAbout(inbox_doc) # <<>> <=>
                        \E j \in 1..Len(CorpusDocs(pass_docs)) :
                            LET corpus_doc == CorpusDocs(pass_docs)[j]
                                sim == TitleSim(inbox_doc, corpus_doc,
                                                pass_config.env)
                            IN  \/ sim.num >=
                                      pass_config.title_similarity * sim.den
                                \/ HammingDist(inbox_doc, corpus_doc,
                                               pass_config.env)
                                      <= pass_config.hamming_threshold
        /\ OnlyInboxAgainstCorpus

\* under the default thresholds an inbox document is flagged for its title
\* alone while another inbox document is not flagged
C9_FlaggedByTitleAlone ==
    /\ pass_state = "duplicates"
    /\ SomeCapability
    /\ pass_config.hamming_threshold = HAMMING_THRESHOLD_DEFAULT
    /\ \E i, k \in 1..Len(InboxDocs(pass_docs)) :
            /\ WarningsAbout(InboxDocs(pass_docs)[i]) # <<>>
            /\ \A j \in 1..Len(CorpusDocs(pass_docs)) :
                    HammingDist(InboxDocs(pass_docs)[i],
                                CorpusDocs(pass_docs)[j], pass_config.env)
                        > pass_config.hamming_threshold
            /\ WarningsAbout(InboxDocs(pass_docs)[k]) = <<>>

\* C10: when neither similarity capability is available,
\* detect_near_duplicates returns exactly one finding, a warning at
\* "(system)" saying that duplicate detection was skipped, and no warning
\* about a document.
C10_SkippedNotice ==
    (pass_state = "duplicates" /\ ~SomeCapability) =>
        /\ Len(pass_result.findings) = 1
        /\ pass_result.findings[1].is_warning
        /\ pass_result.findings[1].path = SystemPath
        /\ pass_result.findings[1].message.kind = "detection_skipped"

\* neither capability is available, and the list holds an inbox document
\* and a corpus document that the thresholds of the call would pair
C10_SkippedWithPairsAtHand ==
    /\ pass_state = "duplicates"
    /\ ~SomeCapability
    /\ pass_config.title_similarity = 0
    /\ InboxDocs(pass_docs) # <<>>
    /\ CorpusDocs(pass_docs) # <<>>
    /\ Len(pass_result.findings) = 1

(***************************************************************************)
(* Properties of validate_front_matter_fields                              *)
(***************************************************************************)
\* the findings of the given kinds about the given field
FindingsOfKind(kinds, field) ==
    SelectSeq(pass_result.findings,
        LAMBDA f : f.message.kind \in kinds /\ f.message.field = field)

\* the spelling of a field name
FieldSpelling(name) ==
    CASE name = "canonical" -> <<"c", "a", "n", "o", "n", "i", "c", "a", "l">>
      [] name = "created" -> <<"c", "r", "e", "a", "t", "e", "d">>
      [] name = "doc_id" -> <<"d", "o", "c", "_", "i", "d">>
      [] name = "doc_type" -> <<"d", "o", "c", "_", "t", "y", "p", "e">>
      [] name = "status" -> <<"s", "t", "a", "t", "u", "s">>
      [] name = "summary" -> <<"s", "u", "m", "m", "a", "r", "y">>
      [] name = "tags" -> <<"t", "a", "g", "s">>
      [] name = "title" -> <<"t", "i", "t", "l", "e">>
      [] OTHER -> <<"u", "p", "d", "a", "t", "e", "d">>

\* the names are in strictly ascending alphabetical order
Alphabetical(names) ==
    \A i, j \in 1..Len(names) :
        i < j => /\ names[i] # names[j]
                 /\ PathLeq(FieldSpelling(names[i]), FieldSpelling(names[j]))

MinimalFields == {"title", "doc_type", "status", "created"}

FullFields == MinimalFields \cup {"doc_id", "canonical", "tags", "summary"}

\* C11: validate_front_matter_fields reports the missing required fields as
\* exactly one error that lists every missing name in alphabetical order,
\* and reports none when no required field is missing; the required fields
\* are title, doc_type, status, created for an inbox document and those plus
\* doc_id, canonical, tags, summary for a full one.
C11_OneFindingListsMissing ==
    pass_state = "validated" =>
        LET missing == (IF pass_config.is_inbox THEN MinimalFields
                        ELSE FullFields) \ DOMAIN pass_docs[1].front_matter
            found == FindingsOfKind({"missing_fields"}, "")
        IN  IF missing = {} THEN found = <<>>
            ELSE /\ Len(found) = 1
                 /\ ~found[1].is_warning
                 /\ found[1].path = pass_docs[1].path
                 /\ {found[1].message.names[i] :
                        i \in 1..Len(found[1].message.names)} = missing
                 /\ Alphabetical(found[1].message.names)

\* an inbox document without status, doc_type and created got one finding,
\* and the fields only a full document needs are not in it
C11_InboxMissingSeveral ==
    /\ pass_state = "validated"
    /\ pass_config.is_inbox
    /\ DOMAIN pass_docs[1].front_matter = {"title"}
    /\ Len(FindingsOfKind({"missing_fields"}, "")) = 1
    /\ Len(FindingsOfKind({"missing_fields"}, "")[1].message.names) = 3

\* the field has a value: its key is there and the value is not null
HasValue(front_matter, field) ==
    field \in DOMAIN front_matter /\ front_matter[field].t # "none"

\* C12: when doc_type (respectively status) is present and is not a member
\* of the document types (respectively statuses), validate_front_matter_fields
\* reports an error that names the offending value; a member produces no
\* such error.
C12_EnumErrorIffNotMember ==
    pass_state = "validated" =>
        LET front_matter == pass_docs[1].front_matter
            Checked(field, kind, valid) ==
                HasValue(front_matter, field) =>
                    IF InStrSet(front_matter[field], valid)
                    THEN FindingsOfKind({kind}, field) = <<>>
                    ELSE /\ Len(FindingsOfKind({kind}, field)) = 1
                         /\ ~FindingsOfKind({kind}, field)[1].is_warning
                         /\ FindingsOfKind({kind}, field)[1].message.value
                                = PyStr(front_matter[field])
        IN  /\ Checked("doc_type", "invalid_doc_type", VALID_DOC_TYPES)
            /\ Checked("status", "invalid_status", VALID_STATUSES)

\* one or more uppercase letters, "-", four digits, "-", five digits, and
\* nothing else
WellFormedDocId(s) ==
    LET k == Len(s) - 11
    IN  /\ k >= 1
        /\ \A i \in 1..k : s[i] \in UpperChars
        /\ s[k + 1] = "-"
        /\ \A i \in (k + 2)..(k + 5) : s[i] \in DigitChars
        /\ s[k + 6] = "-"
        /\ \A i \in (k + 7)..(k + 11) : s[i] \in DigitChars

\* C13: for a full document whose doc_id is present, an identifier-format
\* error is reported if and only if doc_id is not exactly uppercase letters,
\* "-", a 4-digit year, "-", a 5-digit sequence; for an inbox document no
\* identifier-format error is reported.
C13_DocIdErrorIffMalformed ==
    pass_state = "validated" =>
        LET front_matter == pass_docs[1].front_matter
            found == FindingsOfKind({"invalid_doc_id_format"}, "doc_id")
        IN  IF pass_config.is_inbox THEN found = <<>>
            ELSE HasValue(front_matter, "doc_id") =>
                    (found # <<>> <=>
                        ~WellFormedDocId(PyStr(front_matter["doc_id"])))

\* the same, for the doc_id values that are neither empty nor end in a
\* newline, when the call returns
DocIdErrorIffMalformedOtherwise ==
    (pass_state = "validated" /\ ~pass_result.raised) =>
        LET front_matter == pass_docs[1].front_matter
            found == FindingsOfKind({"invalid_doc_id_format"}, "doc_id")
        IN  IF pass_config.is_inbox THEN found = <<>>
            ELSE (/\ HasValue(front_matter, "doc_id")
                  /\ Truthy(front_matter["doc_id"])
                  /\ DropFinalNewline(PyStr(front_matter["doc_id"]))
                        = PyStr(front_matter["doc_id"])) =>
                    (found # <<>> <=>
                        ~WellFormedDocId(PyStr(front_matter["doc_id"])))

\* four digits, "-", two digits, "-", two digits, and nothing else
LexicalDate(s) ==
    /\ Len(s) = 10
    /\ \A i \in {1, 2, 3, 4, 6, 7, 9, 10} : s[i] \in DigitChars
    /\ s[5] = "-"
    /\ s[8] = "-"

\* the text is year-month-day in digits and names a day of the calendar
CalendarDate(s) ==
    \E i, j \in 1..Len(s) :
        /\ {k \in 1..Len(s) : s[k] = "-"} = {i, j}
        /\ 1 < i /\ i + 1 < j /\ j < Len(s)
        /\ \A k \in (1..Len(s)) \ {i, j} : s[k] \in DigitChars
        /\ LET y == DecimalValue(s, 1, i - 1)
               m == DecimalValue(s, i + 1, j - 1)
               d == DecimalValue(s, j + 1, Len(s))
           IN  /\ y >= 1
               /\ m \in 1..12
               /\ d \in 1..DaysInMonth(y, m)

\* C14: for each of created and updated, when present: a value that does
\* not match YYYY-MM-DD lexically is reported, a value that does not denote
\* a real calendar date is reported, and when both checks fail both are
\* reported, as distinct messages.
C14_BothDateChecksReported ==
    pass_state = "validated" =>
        \A date_field \in {"created", "updated"} :
            HasValue(pass_docs[1].front_matter, date_field) =>
                LET date_str == PyStr(pass_docs[1].front_matter[date_field])
                IN  /\ ~LexicalDate(date_str) =>
                            FindingsOfKind({"invalid_date_format"},
                                           date_field) # <<>>
                    /\ ~CalendarDate(date_str) =>
                            FindingsOfKind({"invalid_date"}, date_field) # <<>>

\* a date value gets one message at most
AtMostOneDateFinding ==
    pass_state = "validated" =>
        \A date_field \in {"created", "updated"} :
            Len(FindingsOfKind({"invalid_date_format", "invalid_date"},
                               date_field)) <= 1

\* C15: a tags value that is present and not a list produces exactly one
\* error about tags, which names the field and the type of the value, and
\* that is the only finding when the document is otherwise valid; a tags
\* value that is a list, or no tags at all, produces no such error.
C15_TagsTypeError ==
    pass_state = "validated" =>
        LET front_matter == pass_docs[1].front_matter
            found == FindingsOfKind({"tags_not_list"}, "tags")
        IN  IF HasValue(front_matter, "tags")
               /\ front_matter["tags"].t # "list"
            THEN /\ Len(found) = 1
                 /\ ~found[1].is_warning
                 /\ found[1].message.names = << front_matter["tags"].t >>
                 /\ validate_front_matter_fields(pass_docs[1].path,
                        WithField(front_matter, "tags", ListV(<<>>)),
                        pass_config.is_inbox) = <<>>
                    => pass_result.findings = found
            ELSE found = <<>>

\* a full document, valid but for tags: "not-a-list", got one finding
C15_ScalarTags ==
    /\ pass_state = "validated"
    /\ ~pass_config.is_inbox
    /\ Get(pass_docs[1].front_matter, "tags") = Str(<<"n", "o", "t", "-", "a", "-", "l", "i", "s", "t">>)
    /\ Len(pass_result.findings) = 1
    /\ pass_result.findings[1].message.kind = "tags_not_list"
    /\ pass_result.findings[1].message.names = <<"str">>

(***************************************************************************)
(* Properties of extract_front_matter and collect_documents                *)
(***************************************************************************)
\* every finding the passes produce for the documents, with the defaults
FindingsFor(docs, caps) ==
    ValidateDocuments(docs)
    \o check_canonical_uniqueness(docs)
    \o detect_near_duplicates(docs, HAMMING_THRESHOLD_DEFAULT,
                              TITLE_SIMILARITY_DEFAULT, caps)

\* the path occurs nowhere in what a run makes of the documents: not as a
\* document, not in a finding, not in a record of the registry
Unseen(path, docs, caps) ==
    /\ \A i \in 1..Len(docs) : docs[i].path # path
    /\ \A i \in 1..Len(FindingsFor(docs, caps)) :
            LET f == FindingsFor(docs, caps)[i]
            IN  /\ f.path # path
                /\ f.message.corpus # path
                /\ \A k \in 1..Len(f.message.paths) :
                        f.message.paths[k] # path
    /\ \A i \in 1..Len(Registry(docs, 0).docs) :
            Registry(docs, 0).docs[i]["path"].val # path

\* the files of the given kinds yield no metadata and are seen nowhere
DroppedKinds(kinds) ==
    pass_state = "collected" =>
        \A rel_path \in CollectPaths :
            pass_config.tree[rel_path].kind \in kinds =>
                /\ ~extract_front_matter(pass_config.tree[rel_path])
                        .has_front_matter
                /\ Unseen(FullPath(rel_path), pass_result.documents,
                          pass_config.env)

\* C16: a file lacking two delimiter lines (it does not begin with the
\* delimiter, or has no closing delimiter line) yields no metadata from
\* extract_front_matter, is dropped by collect_documents, and appears in no
\* finding, not among the validated documents and not in the registry.
C16_NoDelimiterLinesNoDocument ==
    DroppedKinds({"plain", "unclosed", "inline"})

\* the same, for the files that do not start with "---" or hold no second
\* "---" at all
DroppedWithoutSecondMarker == DroppedKinds({"plain", "unclosed"})

\* the paths main's documents must hold: those of the listed files that
\* yield front matter and are not excluded, in the order of the listing
EligiblePaths ==
    LET eligible == SelectSeq(Listing(tree, dir_order),
                        LAMBDA rel_path :
                            /\ tree[rel_path].kind \in {"doc", "inline"}
                            /\ ~Excluded(rel_path, DEFAULT_EXCLUDE_PATTERNS))
    IN  [i \in 1..Len(eligible) |-> FullPath(eligible[i])]

\* main is past collect_documents, and past the two passes that find errors
PastCollect ==
    /\ docs_found
    /\ pc \in {"validate", "canonical", "duplicates", "print", "registry",
               "summary", "exited", "crashed"}

PastCanonical ==
    /\ docs_found
    /\ pc \in {"duplicates", "print", "registry", "summary", "exited",
               "crashed"}

Returned(rel_path) ==
    \E i \in 1..Len(pass_result.documents) :
        pass_result.documents[i].path = FullPath(rel_path)

\* some exclusion pattern of the call occurs in the relative path
ContainsPattern(rel_path) ==
    \E pattern \in pass_config.exclude_patterns : Contains(rel_path, pattern)

\* the file lies in a directory that an exclusion pattern names
UnderExcludedSubtree(rel_path) ==
    \E pattern \in pass_config.exclude_patterns :
        \/ SubSeq(rel_path, 1, Len(pattern)) = pattern
        \/ Contains(rel_path, <<"/">> \o pattern)

\* the files of the call that have metadata
WithMetadata ==
    {rel_path \in CollectPaths :
        extract_front_matter(pass_config.tree[rel_path]).has_front_matter}

\* C18 (as stated, with the subtrees): collect_documents returns a
\* document for a file that has metadata if and only if its relative path
\* contains no exclusion pattern as a substring; a file under an excluded
\* subtree is never returned and a file outside every excluded subtree is
\* never skipped.
C18_ExcludedIffUnderSubtreeAsStated ==
    pass_state = "collected" =>
        \A rel_path \in WithMetadata :
            /\ Returned(rel_path) <=> ~ContainsPattern(rel_path)
            /\ UnderExcludedSubtree(rel_path) => ~Returned(rel_path)
            /\ ~UnderExcludedSubtree(rel_path) => Returned(rel_path)

\* C18: collect_documents returns a document for a file that has metadata
\* if and only if its relative path contains no exclusion pattern as a
\* substring; a file under an excluded subtree is never returned, and
\* neither is a file elsewhere whose path contains a pattern; a file without
\* metadata is never returned.
C18_ExcludedIffPatternOccurs ==
    pass_state = "collected" =>
        /\ \A rel_path \in WithMetadata :
                /\ Returned(rel_path) <=> ~ContainsPattern(rel_path)
                /\ UnderExcludedSubtree(rel_path) => ~Returned(rel_path)
        /\ \A rel_path \in CollectPaths \ WithMetadata : ~Returned(rel_path)

\* with the default patterns, the documents under index/ and under reindex/
\* are both left out and the one under adr/ is returned
C18_ReindexSkipped ==
    /\ pass_state = "collected"
    /\ pass_config.exclude_patterns = DEFAULT_EXCLUDE_PATTERNS
    /\ {RelAdr, RelIndex, RelReindex} \subseteq WithMetadata
    /\ Returned(RelAdr)
    /\ ~Returned(RelIndex)
    /\ ~Returned(RelReindex)

\* the paths of the per-document records of a registry, in order
RegistryPaths(registry) ==
    [i \in 1..Len(registry.docs) |-> [path |-> registry.docs[i]["path"].val]]

\* C19: the document list collect_documents returns is ordered by path, and
\* the docs list of a generated registry keeps that order, so its records
\* are sorted by path.
C19_CollectedInPathOrder ==
    /\ PastCollect => PathSorted(documents)
    /\ (PastCollect /\ generate_called /\ registry_file.state = "complete")
            => /\ RegistryPaths(registry_file.registry)
                    = [i \in 1..Len(documents) |->
                            [path |-> documents[i].path]]
               /\ PathSorted(RegistryPaths(registry_file.registry))

\* the docs list of a generated registry keeps the order of the collector
RegistryKeepsCollectorOrder ==
    (PastCollect /\ generate_called /\ registry_file.state = "complete")
        => RegistryPaths(registry_file.registry)
                = [i \in 1..Len(documents) |-> [path |-> documents[i].path]]

(***************************************************************************)
(* Properties of generate_registry                                         *)
(***************************************************************************)
\* the number of the documents whose field has the value
Carrying(field, value) ==
    Cardinality({i \in 1..Len(pass_docs) :
        /\ HasValue(pass_docs[i].front_matter, field)
        /\ pass_docs[i].front_matter[field] = value})

\* the values of the field that the documents carry
ValuesCarried(field) ==
    {pass_docs[i].front_matter[field] :
        i \in {j \in 1..Len(pass_docs) :
                    HasValue(pass_docs[j].front_matter, field)}}

\* the registry written by the call, once it is written whole
Generated ==
    /\ pass_state = "generated"
    /\ pass_result.registry_file.state = "complete"

RECURSIVE HalveDecimal(_, _)
HalveDecimal(text, carry) ==
    IF text = <<>> THEN [quotient |-> <<>>, remainder |-> carry]
    ELSE LET d == 10 * carry + DecimalValue(text, 1, 1)
             rest == HalveDecimal(Tail(text), d % 2)
         IN  [quotient |-> <<DigitSeq[(d \div 2) + 1]>> \o rest.quotient,
              remainder |-> rest.remainder]

\* the positions, counted from at, of the one-bits of the integer a decimal
\* text denotes
RECURSIVE BitsOfDecimal(_, _)
BitsOfDecimal(text, at) ==
    IF \A i \in 1..Len(text) : text[i] = "0" THEN {}
    ELSE LET half == HalveDecimal(text, 0)
         IN  (IF half.remainder = 1 THEN {at} ELSE {})
             \cup BitsOfDecimal(half.quotient, at + 1)

\* a decimal text as str() writes an integer: digits, no leading zero
IsDecimalText(text) ==
    /\ text # <<>>
    /\ \A i \in 1..Len(text) : text[i] \in DigitChars
    /\ Len(text) > 1 => text[1] # "0"

\* the record has the text under the key
HoldsText(record, key, text) ==
    /\ key \in DOMAIN record
    /\ \/ record[key] = EntryValue(key, text)
       \/ record[key] = EntryValue("front_matter", Str(text))

\* the record has, under simhash, the fingerprint of the document as a
\* decimal text, exactly when the document has a fingerprint
FingerprintRecorded(record, doc) ==
    /\ "simhash" \in DOMAIN record <=> doc.simhash.present
    /\ doc.simhash.present =>
            /\ record["simhash"].tag = "simhash"
            /\ IsDecimalText(record["simhash"].val)
            /\ BitsOfDecimal(record["simhash"].val, 0) = doc.simhash.bits

\* the record has every metadata field of the document with its value
FieldsVerbatim(record, doc, keys) ==
    \A k \in DOMAIN doc.front_matter \cap keys :
        /\ k \in DOMAIN record
        /\ record[k] = EntryValue("front_matter", doc.front_matter[k])

ReservedKeys == {"path", "sha256", "simhash"}

AllKeys == DOMAIN ValidFrontMatter \cup ReservedKeys

\* C21: each record of the registry carries the document's path under
\* path, its content hash under sha256, every metadata field with its value
\* verbatim, and the fingerprint as a decimal string under simhash exactly
\* when a fingerprint was computed; whatever keys the metadata contains, the
\* record's path is the document's path and its sha256 the document's
\* content hash.
C21_RecordCarriesPathHashFieldsFingerprint ==
    Generated =>
        LET registry == pass_result.registry_file.registry
        IN  /\ Len(registry.docs) = Len(pass_docs)
            /\ \A i \in 1..Len(pass_docs) :
                    /\ HoldsText(registry.docs[i], "path", pass_docs[i].path)
                    /\ "sha256" \in DOMAIN registry.docs[i]
                    /\ registry.docs[i]["sha256"]
                            = EntryValue("sha256", pass_docs[i].content_hash)
                    /\ FieldsVerbatim(registry.docs[i], pass_docs[i], AllKeys)
                    /\ FingerprintRecorded(registry.docs[i], pass_docs[i])

\* the same, for the documents whose metadata has no key named path, sha256
\* or simhash
RecordOfPlainMetadata ==
    Generated =>
        LET registry == pass_result.registry_file.registry
        IN  /\ Len(registry.docs) = Len(pass_docs)
            /\ \A i \in 1..Len(pass_docs) :
                    DOMAIN pass_docs[i].front_matter \cap ReservedKeys = {} =>
                        /\ HoldsText(registry.docs[i], "path",
                                     pass_docs[i].path)
                        /\ registry.docs[i]["sha256"]
                              = EntryValue("sha256", pass_docs[i].content_hash)
                        /\ FieldsVerbatim(registry.docs[i], pass_docs[i],
                                          AllKeys)
                        /\ FingerprintRecorded(registry.docs[i], pass_docs[i])
                        /\ DOMAIN registry.docs[i] =
                                {"path", "sha256"}
                                \cup DOMAIN pass_docs[i].front_matter
                                \cup (IF pass_docs[i].simhash.present
                                      THEN {"simhash"} ELSE {})

\* a record whose path is the value of the metadata key path, not the path
\* of the document
PathOverwritten ==
    /\ Generated
    /\ \E i \in 1..Len(pass_docs) :
            /\ "path" \in DOMAIN pass_docs[i].front_matter
            /\ ~HoldsText(pass_result.registry_file.registry.docs[i], "path",
                          pass_docs[i].path)

\* a record with the fingerprint 2^35 + 2^3, written as 34359738376
WideFingerprintRecorded ==
    /\ Generated
    /\ \E i \in 1..Len(pass_docs) :
            /\ pass_docs[i].simhash = SimhashValue({3, 35})
            /\ pass_result.registry_file.registry.docs[i]["simhash"].val =
                    <<"3","4","3","5","9","7","3","8","3","7","6">>


\* the documents a run collects from the tree of the two runs
CollectedFrom(order) ==
    collect_documents(pass_config.tree, Listing(pass_config.tree, order),
                      DEFAULT_EXCLUDE_PATTERNS, pass_config.env)

\* the tree of the two runs holds no error: a run over it finds none
ErrorFreeCorpus ==
    ErrorsOf(FindingsFor(CollectedFrom(pass_config.first_order),
                         pass_config.env)) = <<>>

\* the two registries differ in nothing but generated_at
SameButTimestamp(first, second) ==
    /\ first.state = second.state
    /\ first.registry.total_docs = second.registry.total_docs
    /\ first.registry.by_type = second.registry.by_type
    /\ first.registry.by_status = second.registry.by_status
    /\ first.registry.docs = second.registry.docs

\* C22: collection and the registry builder run twice on an unchanged,
\* error-free corpus yield the same by_type, by_status and docs, the
\* records in the same order; only generated_at may differ.
C22_TwoRunsSameRegistry ==
    (pass_state = "second" /\ ErrorFreeCorpus) =>
        SameButTimestamp(pass_result.first, pass_result.second)

\* the same, when the file system lists the directory in the same order
\* both times
TwoRunsSameRegistryUnderOneListing ==
    (/\ pass_state = "second"
     /\ ErrorFreeCorpus
     /\ Listing(pass_config.tree, pass_config.first_order)
            = Listing(pass_config.tree, pass_config.second_order)) =>
        SameButTimestamp(pass_result.first, pass_result.second)

\* the two runs wrote the same counts and the same records, in two orders
SameRecordsOtherOrder ==
    /\ pass_state = "second"
    /\ ErrorFreeCorpus
    /\ pass_result.first.state = "complete"
    /\ pass_result.second.state = "complete"
    /\ pass_result.first.registry.by_type
            = pass_result.second.registry.by_type
    /\ SeqRange(pass_result.first.registry.docs)
            = SeqRange(pass_result.second.registry.docs)
    /\ pass_result.first.registry.docs # pass_result.second.registry.docs


(***************************************************************************)
(* Properties of the order of main's steps                                 *)
(***************************************************************************)
\* the status the process ends with: sys.exit(main()) passes on main's
\* return value, and the interpreter ends with 1 on an uncaught exception
ProcessExitStatus == IF pc = "crashed" THEN 1 ELSE exit_code

\* main has not yet reached the printing of the findings
BeforeReport ==
    pc \in {"collect", "validate", "canonical", "duplicates", "print"}

\* main is past the printing of the findings
AfterReport ==
    /\ docs_found
    /\ \/ pc \in {"registry", "summary", "exited"}
       \/ pc = "crashed" /\ generate_called

\* what the four passes yield for the tree as it is
WholeCollection ==
    collect_documents(tree, Listing(tree, dir_order),
                      DEFAULT_EXCLUDE_PATTERNS, env)

\* nothing is printed and no registry generated before the report; after it
\* the lists hold the findings of all four passes over the whole collection
\* and all of them are printed; the registry is generated after it only;
\* the process ends with 0 or 1
StepsInOrder ==
    /\ BeforeReport => (printed = NothingPrinted /\ ~generate_called)
    /\ AfterReport =>
            /\ documents = WholeCollection
            /\ all_errors = ErrorsOf(FindingsOfRun)
            /\ all_warnings = WarningsOf(FindingsOfRun)
            /\ printed = [errors |-> all_errors, warnings |-> all_warnings]
    /\ generate_called =>
            (docs_found /\ pc \in {"summary", "exited", "crashed"})
    /\ InvocationOver => ProcessExitStatus \in {0, 1}

\* the steps main takes from one position to the next
ForwardSteps ==
    { <<"idle", "collect">>, <<"idle", "exited">>, <<"collect", "validate">>,
      <<"validate", "canonical">>, <<"validate", "crashed">>,
      <<"canonical", "duplicates">>,
      <<"duplicates", "print">>, <<"print", "registry">>,
      <<"registry", "summary">>, <<"registry", "crashed">>,
      <<"summary", "exited">>, <<"exited", "idle">>, <<"crashed", "idle">> }

\* main only moves forward, and each of its lists and files changes in the
\* step that is its own
OneStepForward ==
    /\ pc' # pc => <<pc, pc'>> \in ForwardSteps
    /\ (pc # "idle" /\ pc' # "idle") =>
            /\ documents' # documents => pc = "collect"
            /\ all_errors' # all_errors => pc \in {"validate", "canonical"}
            /\ all_warnings' # all_warnings =>
                    pc \in {"validate", "canonical", "duplicates"}
            /\ printed' # printed => pc = "print"
            /\ registry_file' # registry_file => pc = "registry"
            /\ exit_code' # exit_code => pc = "summary"
            /\ tree' = tree

\* C23: within one invocation, collection, the validation of every
\* collected document, the canonical-uniqueness pass and the
\* near-duplicate pass are all complete before a finding is printed;
\* registry generation, when it happens, starts after every finding is
\* printed; the run ends in one terminal state, success (0) or failure (1),
\* and no pass is run again.
C23_PassesThenReportThenRegistry ==
    []StepsInOrder /\ [][OneStepForward]_vars

\* a run over two documents returned 0 after it printed a near-duplicate
\* warning and then generated the registry
C23_ReportedThenGenerated ==
    /\ pc = "exited"
    /\ exit_code = 0
    /\ Len(documents) = 2
    /\ printed.warnings = WarningsOf(FindingsOfRun)
    /\ printed.warnings # <<>>
    /\ printed.warnings[1].message.kind = "near_duplicate"
    /\ generate_called


(***************************************************************************)
(* Properties of the validation pass as a whole                            *)
(***************************************************************************)
\* the kinds of finding of each of the six rules, in the order of the rules
RuleKinds ==
    << {"missing_fields"}, {"invalid_doc_type", "invalid_status"},
       {"invalid_doc_id_format"}, {"invalid_date_format", "invalid_date"},
       {"canonical_not_boolean"}, {"tags_not_list"} >>

\* the rule a finding belongs to
RuleOf(finding) ==
    CHOOSE r \in 1..Len(RuleKinds) : finding.message.kind \in RuleKinds[r]

\* what each rule finds in the document when asked on its own
RuleFindings(doc_path, front_matter, is_inbox) ==
    << MissingFieldErrors(doc_path, front_matter, is_inbox),
       DocTypeErrors(doc_path, front_matter)
            \o StatusErrors(doc_path, front_matter),
       DocIdErrors(doc_path, front_matter, is_inbox),
       DateErrors(doc_path, front_matter, "created")
            \o DateErrors(doc_path, front_matter, "updated"),
       CanonicalTypeErrors(doc_path, front_matter),
       TagsTypeErrors(doc_path, front_matter) >>

\* the call returned the findings of every rule, rule after rule
EveryRuleReported ==
    LET findings == pass_result.findings
        each == RuleFindings(pass_docs[1].path, pass_docs[1].front_matter,
                             pass_config.is_inbox)
    IN  /\ \A r \in 1..Len(RuleKinds) :
                SelectSeq(findings, LAMBDA f : RuleOf(f) = r) = each[r]
        /\ \A i, j \in 1..Len(findings) :
                i < j => RuleOf(findings[i]) <= RuleOf(findings[j])

\* C24: every document is checked against all six rules in the fixed order
\* (required fields, doc_type and status vocabulary, identifier format,
\* date fields, canonical type, tags type); a violation found by an earlier
\* rule never keeps a later rule from being checked, so the document gets
\* the findings of every rule it violates, and the pass completes for every
\* document.
C24_AllRulesForEveryDocument ==
    pass_state = "validated" =>
        (~pass_result.raised /\ EveryRuleReported)

\* the same, for the documents whose doc_type and status can be hashed
AllRulesWhenHashable ==
    (/\ pass_state = "validated"
     /\ \A field \in {"doc_type", "status"} :
            Hashable(Get(pass_docs[1].front_matter, field))) =>
        (~pass_result.raised /\ EveryRuleReported)

\* a document that violates three rules got the three findings
ThreeRulesThreeFindings ==
    /\ pass_state = "validated"
    /\ ~pass_config.is_inbox
    /\ pass_docs[1].front_matter = LaterRulesFrontMatter
    /\ Len(pass_result.findings) = 3

\* the call raised on a document that also violates later rules
RaisedBeforeLaterRules ==
    /\ pass_state = "validated"
    /\ pass_result.raised
    /\ CanonicalTypeErrors(pass_docs[1].path, pass_docs[1].front_matter)
            # <<>>


(***************************************************************************)
(* Properties of the similarity measures                                   *)
(***************************************************************************)
\* the number of bit positions in which two fingerprints differ
Distance(a, b) == Cardinality({k \in 0..63 : (k \in a) # (k \in b)})

\* max(0, 100 - distance * 100 / 64), the quotient taken in whole numbers
PercentFor(distance) ==
    LET share == CHOOSE q \in 0..100 :
                    64 * q <= distance * 100 /\ distance * 100 < 64 * (q + 1)
    IN  IF 100 - share >= 0 THEN 100 - share ELSE 0

\* the documents of the call by path
DocAt(path) == CHOOSE d \in SeqRange(pass_docs) : d.path = path

\* both documents of the pair have a fingerprint and simhash is there
Fingerprinted(inbox_doc, corpus_doc) ==
    /\ pass_config.env.simhash
    /\ inbox_doc.simhash.present
    /\ corpus_doc.simhash.present

\* a document whose fingerprint has the given one-bits
DocWithBits(rel_path, bits) ==
    PassDocument(rel_path, EmptyDict, SimhashValue(bits))

\* the title of the inbox document reaches the threshold with no corpus
\* document
NoTitleMatch(inbox_doc) ==
    \A j \in 1..Len(CorpusDocs(pass_docs)) :
        LET sim == TitleSim(inbox_doc, CorpusDocs(pass_docs)[j],
                            pass_config.env)
        IN  sim.num < pass_config.title_similarity * sim.den

\* C25: for every pair of 64-bit fingerprints the reported content
\* similarity is max(0, 100 - distance * 100 / 64), in whole numbers, where
\* distance is their Hamming distance (0..64): it lies in 0..100, is 100
\* exactly when the distance is 0 and never increases as the distance
\* grows; the decision to flag compares the raw distance with the
\* threshold, not the percentage.
C25_ContentSimilarityFromDistance ==
    (pass_state = "duplicates" /\ SomeCapability) =>
        /\ \A i \in 1..Len(pass_result.findings) :
                LET f == pass_result.findings[i]
                    inbox_doc == DocAt(f.path)
                    corpus_doc == DocAt(f.message.corpus)
                IN  Fingerprinted(inbox_doc, corpus_doc) =>
                        f.message.content_sim =
                            PercentFor(Distance(inbox_doc.simhash.bits,
                                                corpus_doc.simhash.bits))
        /\ \A d \in 0..SIMHASH_BITS :
                LET sim == ContentSim(DocWithBits(RelInbox, 0..(d - 1)),
                                      DocWithBits(RelAdr, {}),
                                      [simhash |-> TRUE, rapidfuzz |-> TRUE])
                    next == ContentSim(DocWithBits(RelInbox, 0..d),
                                       DocWithBits(RelAdr, {}),
                                       [simhash |-> TRUE, rapidfuzz |-> TRUE])
                IN  /\ sim = PercentFor(d)
                    /\ sim \in 0..100
                    /\ sim = 100 <=> d = 0
                    /\ d < SIMHASH_BITS => next <= sim
        /\ \A i \in 1..Len(InboxDocs(pass_docs)) :
                LET inbox_doc == InboxDocs(pass_docs)[i]
                IN  (/\ NoTitleMatch(inbox_doc)
                     /\ \A j \in 1..Len(CorpusDocs(pass_docs)) :
                            Fingerprinted(inbox_doc,
                                          CorpusDocs(pass_docs)[j])) =>
                        (WarningsAbout(inbox_doc) # <<>> <=>
                            \E j \in 1..Len(CorpusDocs(pass_docs)) :
                                Distance(inbox_doc.simhash.bits,
                                         CorpusDocs(pass_docs)[j]
                                            .simhash.bits)
                                    <= pass_config.hamming_threshold)

\* under the default thresholds a pair at distance 8 is flagged with a
\* content similarity of 88, and in another call a pair at distance 9, 86,
\* is not
C25_FlaggedAtDistanceEight ==
    /\ pass_state = "duplicates"
    /\ pass_config.hamming_threshold = HAMMING_THRESHOLD_DEFAULT
    /\ pass_config.title_similarity = TITLE_SIMILARITY_DEFAULT
    /\ Len(pass_result.findings) = 1
    /\ pass_result.findings[1].message.content_sim = 88
    /\ NoTitleMatch(DocAt(pass_result.findings[1].path))
    /\ PercentFor(9) = 86


\* rapidfuzz is there and both documents have a title that is not empty
TitlesCompared(inbox_doc, corpus_doc) ==
    /\ pass_config.env.rapidfuzz
    /\ Truthy(GetTitle(inbox_doc.front_matter))
    /\ Truthy(GetTitle(corpus_doc.front_matter))

\* the pair is flagged for what was measured: a title similarity that
\* reaches the threshold, or a distance within the threshold
FlaggedOnTitle(inbox_doc, corpus_doc) ==
    /\ TitlesCompared(inbox_doc, corpus_doc)
    /\ TitleSimilarityOf(inbox_doc, corpus_doc).num
            >= pass_config.title_similarity
                * TitleSimilarityOf(inbox_doc, corpus_doc).den

FlaggedOnDistance(inbox_doc, corpus_doc) ==
    /\ Fingerprinted(inbox_doc, corpus_doc)
    /\ Distance(inbox_doc.simhash.bits, corpus_doc.simhash.bits)
            <= pass_config.hamming_threshold

\* every flagged pair is flagged for a measure that was computed
FlaggedForComputedMeasure ==
    \A i \in 1..Len(pass_result.findings) :
        LET f == pass_result.findings[i]
            inbox_doc == DocAt(f.path)
            corpus_doc == DocAt(f.message.corpus)
        IN  /\ ~Fingerprinted(inbox_doc, corpus_doc) =>
                    FlaggedOnTitle(inbox_doc, corpus_doc)
            /\ ~TitlesCompared(inbox_doc, corpus_doc) =>
                    FlaggedOnDistance(inbox_doc, corpus_doc)

RECURSIVE SumOf(_)
SumOf(counts) ==
    IF DOMAIN counts = {} THEN 0
    ELSE LET v == CHOOSE w \in DOMAIN counts : TRUE
         IN  counts[v] + SumOf([w \in DOMAIN counts \ {v} |-> counts[w]])

\* the first run found no error and wrote its registry whole
WrittenByMain ==
    /\ pass_state \in {"first", "second"}
    /\ ErrorFreeCorpus
    /\ pass_result.first.state = "complete"

\* C27: in every registry main writes (so from documents without an error
\* finding, doc_type and status being required), the counts of by_type add
\* up to total_docs and so do the counts of by_status: every registered
\* document is counted under one type and under one status.
C27_CountsAddUpToTotal ==
    WrittenByMain =>
        LET registry == pass_result.first.registry
        IN  /\ SumOf(registry.by_type) = registry.total_docs
            /\ SumOf(registry.by_status) = registry.total_docs
            /\ registry.total_docs = Len(registry.docs)

\* the same, for the registries all of whose documents have a doc_type and
\* a status that are not empty
CountsAddUpWhenValuesNotEmpty ==
    (/\ WrittenByMain
     /\ \A i \in 1..Len(CollectedFrom(pass_config.first_order)) :
            \A field \in {"doc_type", "status"} :
                Truthy(Get(CollectedFrom(pass_config.first_order)[i]
                                .front_matter, field))) =>
        LET registry == pass_result.first.registry
        IN  /\ SumOf(registry.by_type) = registry.total_docs
            /\ SumOf(registry.by_status) = registry.total_docs
            /\ registry.total_docs = Len(registry.docs)

\* main wrote a registry of two documents that counts one type only
UntypedDocumentRegistered ==
    /\ WrittenByMain
    /\ pass_result.first.registry.total_docs = 2
    /\ SumOf(pass_result.first.registry.by_type) = 1
    /\ SumOf(pass_result.first.registry.by_status) = 2


(***************************************************************************)
(* Properties of the empty concept key                                     *)
(***************************************************************************)
\* the findings of the uniqueness check that name the empty concept
EmptyConceptFindings ==
    SelectSeq(pass_result.findings,
        LAMBDA f : f.message.kind = "multiple_canonical"
                   /\ f.message.concept = <<>>)

\* the groups that the loop over the documents builds under the empty key
EmptyConceptGroups ==
    SelectSeq(GroupCanonical(pass_docs, <<>>), LAMBDA g : g.concept = <<>>)

\* the path is among the elements of the sequence
ListedIn(path, paths) == \E i \in 1..Len(paths) : paths[i] = path

\* C28: the canonical documents whose title is absent, or normalizes to the
\* empty string, are all grouped under the empty concept key: none is left
\* out of the grouping, and two or more of them yield exactly one uniqueness
\* error, which lists each of them, whatever their raw titles.
C28_EmptyKeyGroupsLikeAnyOther ==
    pass_state = "canonical" =>
        LET keyless == CanonicalGroup(pass_docs, <<>>)
        IN  /\ Len(keyless) >= 1 =>
                /\ Len(EmptyConceptGroups) = 1
                /\ \A i \in 1..Len(keyless) :
                        ListedIn(keyless[i], EmptyConceptGroups[1].paths)
            /\ Len(keyless) >= 2 =>
                /\ Len(EmptyConceptFindings) = 1
                /\ \A i \in 1..Len(keyless) :
                        ListedIn(keyless[i],
                                 EmptyConceptFindings[1].message.paths)

\* two canonical documents, one without a title and one titled " ?", were
\* reported together under the empty concept
C28_KeylessPairReported ==
    /\ pass_state = "canonical"
    /\ Len(pass_docs) = 2
    /\ \A i \in 1..2 : IsCanonicalTrue(pass_docs[i])
    /\ "title" \notin DOMAIN pass_docs[1].front_matter
    /\ Get(pass_docs[2].front_matter, "title") = Str(TitleBlankQuery)
    /\ Len(pass_result.findings) = 1
    /\ Len(EmptyConceptFindings) = 1
    /\ EmptyConceptFindings[1].message.paths = PathsOf(pass_docs)


(***************************************************************************)
(* scripts/validate_agents.py: main validates the agent manifests in two   *)
(* phases.  The manifests are pass_docs (file name -> content), the        *)
(* command line and the schemas that were found are pass_config, and the   *)
(* locals of main are pass_result.                                         *)
(***************************************************************************)
AgentA == <<"a", ".", "y", "a", "m", "l">>

AgentB == <<"b", ".", "y", "a", "m", "l">>

OrchestratorFile ==
    <<"O", "r", "c", "h", "e", "s", "t", "r", "a", "t", "o", "r",
      ".", "y", "a", "m", "l">>

ORCHESTRATOR_YAML ==
    <<"o", "r", "c", "h", "e", "s", "t", "r", "a", "t", "o", "r",
      ".", "y", "a", "m", "l">>

ManifestFiles == {AgentA, AgentB, OrchestratorFile}

\* sorted(agents_dir.glob("*.yaml")): upper case sorts before lower case
SortedManifests == <<OrchestratorFile, AgentA, AgentB>>

NameA == Str(<<"a">>)

NameB == Str(<<"b">>)

\* the one skill directory that holds a SKILL.md
available_skills == {"review"}

\* a manifest file: kind is "missing" (no such file), "bad_yaml" (it does
\* not parse) or "yaml"; schema_ok tells whether jsonschema accepts it
Manifest(kind, schema_ok, name, skills, subagents, rules, fallback) ==
    [kind |-> kind, schema_ok |-> schema_ok, name |-> name,
     skills |-> skills, subagents |-> subagents, rules |-> rules,
     fallback |-> fallback]

MissingManifest == Manifest("missing", FALSE, NoneV, <<>>, <<>>, <<>>, NoneV)

BadYamlManifest == Manifest("bad_yaml", FALSE, NoneV, <<>>, <<>>, <<>>, NoneV)

SubagentManifest(schema_ok, name, skills) ==
    Manifest("yaml", schema_ok, name, skills, <<>>, <<>>, NoneV)

OrchestratorManifest(schema_ok, subagents, rules, fallback) ==
    Manifest("yaml", schema_ok, NoneV, <<>>, subagents, rules, fallback)

\* validate_agent(agent_path, schema, agent_type) with a schema at hand
validate_agent(manifest) == manifest.kind = "yaml" /\ manifest.schema_ok

\* files_to_validate: the arguments, or every manifest of agents_dir
FilesToValidate(argv, manifests) ==
    IF Len(argv) > 0 THEN argv
    ELSE SelectSeq(SortedManifests, LAMBDA f : manifests[f].kind # "missing")

\* a separation that takes the name as it is written
IsOrchestratorFileExactCase(f) == f = ORCHESTRATOR_YAML

\* Path(f).name.lower() == "orchestrator.yaml"
IsOrchestratorFile(f) == LowerStr(f) = ORCHESTRATOR_YAML

\* a sequence of strings has one outside the set
HasOutside(names, allowed) == \E i \in 1..Len(names) : names[i] \notin allowed

\* the body of the phase 1 loop for one file: the locals after it
SubagentChecked(manifest, schema_loaded, locals) ==
    LET failed == [locals EXCEPT !.all_valid = FALSE]
    IN  IF manifest.kind = "missing" THEN failed
        ELSE IF schema_loaded /\ ~validate_agent(manifest) THEN failed
        ELSE IF manifest.kind = "bad_yaml" THEN failed
        ELSE [locals EXCEPT
                !.valid_subagent_names =
                    IF manifest.name.t = "str" /\ Truthy(manifest.name)
                    THEN @ \cup {manifest.name} ELSE @,
                !.all_valid =
                    @ /\ ~HasOutside(manifest.skills, available_skills)]

\* the body of the phase 2 loop for one file: all_valid after it
OrchestratorChecked(manifest, schema_loaded, locals) ==
    IF manifest.kind # "yaml" THEN FALSE
    ELSE LET subagents_list == SeqRange(manifest.subagents)
         IN  /\ locals.all_valid
             /\ schema_loaded => validate_agent(manifest)
             /\ ~HasOutside(manifest.subagents, locals.valid_subagent_names)
             /\ ~HasOutside(SelectSeq(manifest.rules, Truthy), subagents_list)
             /\ Truthy(manifest.fallback) =>
                    manifest.fallback \in subagents_list

\* the locals of main before the files are separated
NoLocals ==
    [subagent_files |-> <<>>, orchestrator_files |-> <<>>,
     valid_subagent_names |-> {}, all_valid |-> TRUE, processed |-> <<>>,
     status |-> -1]

\* where main is, given what it has processed
AgentsPhase(locals) ==
    IF Len(locals.processed) < Len(locals.subagent_files) THEN "subagents"
    ELSE IF Len(locals.processed)
                < Len(locals.subagent_files) + Len(locals.orchestrator_files)
         THEN "orchestrators"
         ELSE "returning"

SubagentAContents ==
    {MissingManifest, BadYamlManifest,
     SubagentManifest(FALSE, NameA, <<"review">>)}
    \cup {SubagentManifest(TRUE, name, skills) :
            name \in {NoneV, NameA}, skills \in {<<"review">>, <<"deploy">>}}

SubagentBContents ==
    {MissingManifest, SubagentManifest(TRUE, NameB, <<>>),
     SubagentManifest(FALSE, NameB, <<>>), SubagentManifest(TRUE, NameA, <<>>)}

OrchestratorContents ==
    {MissingManifest, BadYamlManifest}
    \cup {OrchestratorManifest(ok, subagents, route[1], route[2]) :
            ok \in BOOLEAN,
            subagents \in {<<>>, <<NameA>>, <<NameA, NameB>>},
            route \in {<<<<>>, NoneV>>, <<<<>>, NameA>>, <<<<NameB>>, NoneV>>}}

\* the command lines: no argument, or some of the files in some order
AgentArgs ==
    {<<>>}
    \cup {<<f>> : f \in ManifestFiles}
    \cup {<<f, g>> : f, g \in ManifestFiles}
    \cup {<<f, g, h>> : f, g, h \in ManifestFiles}

DistinctArgs == {argv \in AgentArgs : Cardinality(SeqRange(argv)) = Len(argv)}

InitAgents ==
    /\ PipelineAside
    /\ \E a \in SubagentAContents, b \in SubagentBContents,
          o \in OrchestratorContents :
            pass_docs = [f \in ManifestFiles |->
                            IF f = AgentA THEN a
                            ELSE IF f = AgentB THEN b ELSE o]
    /\ pass_config \in [argv : DistinctArgs, subagent_schema : BOOLEAN,
                        orchestrator_schema : BOOLEAN]
    /\ pass_result = NoLocals
    /\ pass_state = "input"

\* orchestrator_files and subagent_files are taken out of files_to_validate
SeparateFiles ==
    /\ pass_state = "input"
    /\ LET files_to_validate == FilesToValidate(pass_config.argv, pass_docs)
           locals == [NoLocals EXCEPT
                        !.orchestrator_files =
                            SelectSeq(files_to_validate, IsOrchestratorFile),
                        !.subagent_files =
                            SelectSeq(files_to_validate,
                                LAMBDA f : ~IsOrchestratorFile(f))]
       IN  /\ pass_result' = locals
           /\ pass_state' = AgentsPhase(locals)
    /\ UNCHANGED <<pipelineVars, pass_docs, pass_config>>

\* one turn of "for agent_file in subagent_files"
ValidateSubagent ==
    /\ pass_state = "subagents"
    /\ LET agent_file ==
                pass_result.subagent_files[Len(pass_result.processed) + 1]
           locals == [SubagentChecked(pass_docs[agent_file],
                                      pass_config.subagent_schema, pass_result)
                        EXCEPT !.processed = Append(@, agent_file)]
       IN  /\ pass_result' = locals
           /\ pass_state' = AgentsPhase(locals)
    /\ UNCHANGED <<pipelineVars, pass_docs, pass_config>>

\* one turn of "for agent_file in orchestrator_files"
ValidateOrchestrator ==
    /\ pass_state = "orchestrators"
    /\ LET agent_file ==
                pass_result.orchestrator_files[
                    Len(pass_result.processed)
                        - Len(pass_result.subagent_files) + 1]
           locals == [pass_result EXCEPT
                        !.all_valid =
                            OrchestratorChecked(pass_docs[agent_file],
                                pass_config.orchestrator_schema, pass_result),
                        !.processed = Append(@, agent_file)]
       IN  /\ pass_result' = locals
           /\ pass_state' = AgentsPhase(locals)
    /\ UNCHANGED <<pipelineVars, pass_docs, pass_config>>

\* return 0 if all_valid else 1
ReturnStatus ==
    /\ pass_state = "returning"
    /\ pass_result' =
            [pass_result EXCEPT !.status = IF pass_result.all_valid THEN 0 ELSE 1]
    /\ pass_state' = "exited"
    /\ UNCHANGED <<pipelineVars, pass_docs, pass_config>>

NextAgents ==
    \/ SeparateFiles
    \/ ValidateSubagent
    \/ ValidateOrchestrator
    \/ ReturnStatus

SpecAgents == InitAgents /\ [][NextAgents]_vars

(***************************************************************************)
(* Properties of validate_agents.main                                      *)
(***************************************************************************)
\* main is running over the agent manifests
InAgentsRun ==
    pass_state \in {"subagents", "orchestrators", "returning", "exited"}

\* the sub-agent manifests among the files to validate that exist, parse
\* and pass the schema when one is loaded
SoundSubagents ==
    {f \in SeqRange(FilesToValidate(pass_config.argv, pass_docs)) :
        /\ LowerStr(f) # ORCHESTRATOR_YAML
        /\ pass_docs[f].kind = "yaml"
        /\ pass_config.subagent_schema => pass_docs[f].schema_ok}

\* every sub-agent file comes before every orchestrator file in the order
\* of processing, and an orchestrator is processed only once every
\* sub-agent file of the command has been
SubagentsFirst ==
    LET processed == pass_result.processed
        files == SeqRange(FilesToValidate(pass_config.argv, pass_docs))
    IN  /\ \A i, j \in 1..Len(processed) :
                (LowerStr(processed[i]) = ORCHESTRATOR_YAML
                 /\ LowerStr(processed[j]) # ORCHESTRATOR_YAML) => j < i
        /\ (\E i \in 1..Len(processed) :
                LowerStr(processed[i]) = ORCHESTRATOR_YAML) =>
                \A f \in files :
                    LowerStr(f) # ORCHESTRATOR_YAML =>
                        ListedIn(f, processed)
        /\ pass_state = "exited" => SeqRange(processed) = files

\* C29: in validate_agents.main every sub-agent manifest is processed
\* before any orchestrator manifest, whatever the order of the arguments;
\* a name is registered as valid only by a sub-agent manifest that exists
\* and did not fail schema validation; and the exit status is 0 only if
\* every name in every orchestrator's subagents list was registered by such
\* a manifest in phase 1 of the same run.
C29_SubagentsBeforeOrchestrators ==
    InAgentsRun =>
        /\ SubagentsFirst
        /\ \A name \in pass_result.valid_subagent_names :
                \E f \in SoundSubagents :
                    /\ pass_docs[f].name = name
                    /\ ListedIn(f, pass_result.processed)
        /\ (pass_state = "exited" /\ pass_result.status = 0) =>
                \A f \in SeqRange(FilesToValidate(pass_config.argv, pass_docs)) :
                    LowerStr(f) = ORCHESTRATOR_YAML =>
                        /\ pass_docs[f].kind = "yaml"
                        /\ \A a \in SeqRange(pass_docs[f].subagents) :
                                \E g \in SoundSubagents : pass_docs[g].name = a

\* the orchestrator was named first on the command line and processed last;
\* it lists two sub-agents, both registered, and the run exited with 0
C29_OrchestratorNamedFirst ==
    /\ pass_state = "exited"
    /\ pass_result.status = 0
    /\ pass_config.argv = <<OrchestratorFile, AgentB, AgentA>>
    /\ pass_result.processed = <<AgentB, AgentA, OrchestratorFile>>
    /\ pass_docs[OrchestratorFile].subagents = <<NameA, NameB>>
    /\ pass_result.valid_subagent_names = {NameA, NameB}

\* the run exited with 1 for an orchestrator that lists a sub-agent whose
\* manifest failed the schema, everything else being valid
FailedSubagentNotRegistered ==
    /\ pass_state = "exited"
    /\ pass_result.status = 1
    /\ pass_config.subagent_schema
    /\ pass_config.argv = <<OrchestratorFile, AgentA, AgentB>>
    /\ pass_docs[AgentA].kind = "yaml" /\ pass_docs[AgentA].schema_ok
    /\ pass_docs[AgentB] = SubagentManifest(FALSE, NameB, <<>>)
    /\ pass_docs[OrchestratorFile].subagents = <<NameA, NameB>>
    /\ pass_result.valid_subagent_names = {NameA}


(***************************************************************************)
(* scripts/validate_skills.py: validate_skill.  A skill is pass_docs: the  *)
(* verdict of the schema on its front matter, the number of lines of       *)
(* SKILL.md, and the numbers of lines of the files of references/ in       *)
(* sorted order (has_refs tells whether the directory exists).             *)
(***************************************************************************)
ENTRY_MAX_LINES == 220

REF_MAX_LINES == 320

COLD_START_BUDGET == 550

Skill(schema_ok, entry_lines, has_refs, refs) ==
    [schema_ok |-> schema_ok, entry_lines |-> entry_lines,
     has_refs |-> has_refs, refs |-> refs]

\* a limit on references that lets a few more lines through
ReferenceTooLargeByTwenty(ref_lines) == ref_lines > REF_MAX_LINES + 20

\* if ref_lines > 320
ReferenceTooLarge(ref_lines) == ref_lines > REF_MAX_LINES

\* the loop over refs[1:]: the first reference that is too large, if any
RECURSIVE OtherReferences(_)
OtherReferences(refs) ==
    IF refs = <<>> THEN "valid"
    ELSE IF ReferenceTooLarge(Head(refs)) THEN "reference_too_large"
    ELSE OtherReferences(Tail(refs))

\* validate_skill(skill_path, schema): "valid" where it returns True, and
\* otherwise the check that made it return False
validate_skill(skill) ==
    IF ~skill.schema_ok THEN "schema"
    ELSE IF skill.entry_lines > ENTRY_MAX_LINES THEN "entry_too_large"
    ELSE IF ~skill.has_refs \/ skill.refs = <<>> THEN "valid"
    ELSE IF ReferenceTooLarge(skill.refs[1]) THEN "reference_too_large"
    ELSE IF skill.entry_lines + skill.refs[1] > COLD_START_BUDGET
         THEN "budget_exceeded"
    ELSE OtherReferences(Tail(skill.refs))

\* numbers of lines at and around the limits
EntryLineCounts == {0, 1, 219, 220, 221, 231, 551}

RefLineCounts == {0, 319, 320, 321, 330, 331}

RefLists ==
    {<<>>} \cup {<<a>> : a \in RefLineCounts}
    \cup {<<a, b>> : a, b \in RefLineCounts}

Skills ==
    {Skill(ok, entry, TRUE, refs) :
        ok \in BOOLEAN, entry \in EntryLineCounts, refs \in RefLists}
    \cup {Skill(ok, entry, FALSE, <<>>) :
            ok \in BOOLEAN, entry \in EntryLineCounts}

InitSkills ==
    /\ PipelineAside
    /\ pass_docs \in Skills
    /\ pass_config = DefaultConfig
    /\ pass_result = NoResult
    /\ pass_state = "input"

\* validate_skill(skill_dir, schema)
ApplyValidateSkill ==
    /\ pass_state = "input"
    /\ pass_result' = [outcome |-> validate_skill(pass_docs)]
    /\ pass_state' = "skill_checked"
    /\ UNCHANGED <<pipelineVars, pass_docs, pass_config>>

NextSkills == ApplyValidateSkill

SpecSkills == InitSkills /\ [][NextSkills]_vars

(***************************************************************************)
(* Properties of validate_skill                                            *)
(***************************************************************************)
\* some reference of the skill has more lines than the limit
SomeReferenceOver ==
    pass_docs.has_refs
    /\ \E i \in 1..Len(pass_docs.refs) : pass_docs.refs[i] > REF_MAX_LINES

\* C30: in validate_skill, when SKILL.md is within its limit of 220 lines
\* and the first reference within its limit of 320, their sum is within the
\* cold-start budget of 550; so the budget check rejects no skill, and a
\* skill that reaches the size checks is rejected exactly when SKILL.md has
\* more than 220 lines or some reference has more than 320.
C30_BudgetNeverRejects ==
    pass_state = "skill_checked" =>
        /\ pass_result.outcome # "budget_exceeded"
        /\ (/\ pass_docs.entry_lines <= ENTRY_MAX_LINES
            /\ pass_docs.refs # <<>>
            /\ pass_docs.refs[1] <= REF_MAX_LINES) =>
                pass_docs.entry_lines + pass_docs.refs[1] <= COLD_START_BUDGET
        /\ pass_docs.schema_ok =>
            /\ pass_result.outcome
                    \in {"entry_too_large", "reference_too_large"}
                <=> (pass_docs.entry_lines > ENTRY_MAX_LINES
                     \/ SomeReferenceOver)
            /\ pass_result.outcome = "entry_too_large"
                <=> pass_docs.entry_lines > ENTRY_MAX_LINES
            /\ pass_result.outcome = "valid"
                <=> ~(pass_docs.entry_lines > ENTRY_MAX_LINES
                      \/ SomeReferenceOver)

\* a skill with SKILL.md and its first reference at their limits, and a
\* second reference within its own, was accepted: 540 lines at cold start
C30_BothAtTheirLimits ==
    /\ pass_state = "skill_checked"
    /\ pass_docs = Skill(TRUE, ENTRY_MAX_LINES, TRUE,
                         <<REF_MAX_LINES, REF_MAX_LINES>>)
    /\ pass_result.outcome = "valid"

====
